---- MODULE Spec2Model ----
(***************************************************************************)
(* Model of dbMap.ts (prisma-toolkit): the catalog mapping builder, the    *)
(* directive field rewriter and the line-by-line schema walker of          *)
(* convertToCamelAndPascal.                                                *)
(*                                                                         *)
(* Text is modelled as TLA+ strings, read character by character with      *)
(* SubSeq; a JavaScript value that may be null (a regex match, the cursor  *)
(* fields currentModel / currentTable) is a sequence of length 0 (null) or *)
(* 1 (the value).                                                          *)
(***************************************************************************)
EXTENDS Integers, Sequences, FiniteSets, TLC

(***************************************************************************)
(* Characters and the String methods the script uses.                      *)
(***************************************************************************)
UpperChars == "ABCDEFGHIJKLMNOPQRSTUVWXYZ"
LowerChars == "abcdefghijklmnopqrstuvwxyz"
DigitChars == "0123456789"

\* String.charAt, 1-based: '' outside the string
CharAt(s, k) == IF k >= 1 /\ k <= Len(s) THEN SubSeq(s, k, k) ELSE ""

CharSet(s) == {CharAt(s, k) : k \in 1..Len(s)}

UpperSet == CharSet(UpperChars)
LowerSet == CharSet(LowerChars)
DigitSet == CharSet(DigitChars)

\* \w of the regular expressions: [A-Za-z0-9_]
IsWordChar(c) == c \in UpperSet \/ c \in LowerSet \/ c \in DigitSet \/ c = "_"

\* [A-Za-z0-9]: what change-case keeps when it strips /[^A-Z0-9]+/gi
IsAlnum(c) == c \in UpperSet \/ c \in LowerSet \/ c \in DigitSet

\* \s of the regular expressions and the characters trim() removes: the
\* white space and the line terminators of JavaScript.  WhiteSpaceChars holds
\* the vertical tab, the no-break space, U+1680 and U+FEFF; the tab, the line
\* feed, the carriage return, the form feed and the space are added by their
\* escapes.  (A string here holds a character beyond U+00FF only when its
\* low byte is 0x80 or more, so U+2000 to U+200A, U+2028, U+2029, U+202F,
\* U+205F and U+3000 cannot be written and are no input of the model.)
WhiteSpaceChars == "  ﻿"

WhiteSpaceSet == CharSet(WhiteSpaceChars) \cup {" ", "\t", "\n", "\r", "\f"}

IsSpace(c) == c \in WhiteSpaceSet

\* the line terminators: what . does not match and where $ holds under /m
\* (U+2028 and U+2029 cannot be written in a string here)
IsLineTerminator(c) == c \in {"\n", "\r"}

\* String.toLowerCase beyond ASCII: the letters whose lower case is one other
\* letter, UpperBeyond[k] giving LowerBeyond[k] (the letters of the Basic
\* Multilingual Plane that a string here can hold, with their lower case; the
\* capital sigma is handled by toLowerCase, which sees its context)
UpperBeyond == "ÀÁÂÃÄÅÆÇÈÉÊËÌÍÎÏÐÑÒÓÔÕÖØÙÚÛÜÝÞƂƄƇƋƎƑƘƠƢƤƦƧƩƬƮƯƱƲƳƵƷƸƼǄǅǇǈǊǋǍǏǑǓǕǗǙǛǞǠǢǤǦǨǪǬǮǱǲǴǶǷǸǺǼǾΆΈΉΊΌΎΏΑΒΓΔΕΖΗΘΙΚΛΜΝΞΟΠΡΤΥΦΧΨΩΪΫϏϘϚϜϞϠϢϤϦϨϪϬϮϴϷϹϺҀҊҌҎҐҒҔҖҘҚҜҞҠҢҤҦҨҪҬҮҰҲҴҶҸҺҼҾӀӁӃӅӇӉӋӍӐӒӔӖӘӚӜӞӠӢӤӦӨӪӬӮӰӲӴӶӸӺӼӾᎰᎱᎲᎳᎴᎵᎶᎷᎸᎹᎺᎻᎼᎽᎾᎿᏀᏁᏂᏃᏄᏅᏆᏇᏈᏉᏊᏋᏌᏍᏎᏏᏐᏑᏒᏓᏔᏕᏖᏗᏘᏙᏚᏛᏜᏝᏞᏟᏠᏡᏢᏣᏤᏥᏦᏧᏨᏩᏪᏫᏬᏭᏮᏯᏰᏱᏲᏳᏴᏵᲉᲐᲑᲒᲓᲔᲕᲖᲗᲘᲙᲚᲛᲜᲝᲞᲟᲠᲡᲢᲣᲤᲥᲦᲧᲨᲩᲪᲫᲬᲭᲮᲯᲰᲱᲲᲳᲴᲵᲶᲷᲸᲹᲺᲽᲾᲿẀẂẄẆẈẊẌẎẐẒẔẞẠẢẤẦẨẪẬẮẰẲẴẶẸẺẼẾỀỂỄỆỈỊỌỎỐỒỔỖỘỚỜỞỠỢỤỦỨỪỬỮỰỲỴỶỸỺỼỾᾈᾉᾊᾋᾌᾍᾎᾏᾘᾙᾚᾛᾜᾝᾞᾟᾨᾩᾪᾫᾬᾭᾮᾯᾸᾹᾼῌῘῙῨῩῬῼↃⒶⒷⒸⒹⒺⒻⒼⒽⒾⒿⓀⓁⓂⓃⓄⓅⓆⓇⓈⓉⓊⓋⓌⓍⓎⓏⲀⲂⲄⲆⲈⲊⲌⲎⲐⲒⲔⲖⲘⲚⲜⲞⲠⲢⲤⲦⲨⲪⲬⲮⲰⲲⲴⲶⲸⲺⲼⲾⳀⳂⳄⳆⳈⳊⳌⳎⳐⳒⳔⳖⳘⳚⳜⳞⳠⳢⳫⳭⳲꚀꚂꚄꚆꚈꚊꚌꚎꚐꚒꚔꚖꚘꚚꞀꞂꞄꞆꞋꞐꞒꞖꞘꞚꞜꞞꞠꞢꞤꞦꞨꞰꞱꞲꞴꞶꞸꞺꞼꞾꟀꟂꟄꟅꟆꟇꟉꟌ꟎Ꟑ꟒꟔ꟖꟘꟚꟜꟵ"
LowerBeyond == "àáâãäåæçèéêëìíîïðñòóôõöøùúûüýþƃƅƈƌǝƒƙơƣƥʀƨʃƭʈưʊʋƴƶʒƹƽǆǆǉǉǌǌǎǐǒǔǖǘǚǜǟǡǣǥǧǩǫǭǯǳǳǵƕƿǹǻǽǿάέήίόύώαβγδεζηθικλμνξοπρτυφχψωϊϋϗϙϛϝϟϡϣϥϧϩϫϭϯθϸϲϻҁҋҍҏґғҕҗҙқҝҟҡңҥҧҩҫҭүұҳҵҷҹһҽҿӏӂӄӆӈӊӌӎӑӓӕӗәӛӝӟӡӣӥӧөӫӭӯӱӳӵӷӹӻӽӿꮀꮁꮂꮃꮄꮅꮆꮇꮈꮉꮊꮋꮌꮍꮎꮏꮐꮑꮒꮓꮔꮕꮖꮗꮘꮙꮚꮛꮜꮝꮞꮟꮠꮡꮢꮣꮤꮥꮦꮧꮨꮩꮪꮫꮬꮭꮮꮯꮰꮱꮲꮳꮴꮵꮶꮷꮸꮹꮺꮻꮼꮽꮾꮿᏸᏹᏺᏻᏼᏽᲊაბგდევზთიკლმნოპჟრსტუფქღყშჩცძწჭხჯჰჱჲჳჴჵჶჷჸჹჺჽჾჿẁẃẅẇẉẋẍẏẑẓẕßạảấầẩẫậắằẳẵặẹẻẽếềểễệỉịọỏốồổỗộớờởỡợụủứừửữựỳỵỷỹỻỽỿᾀᾁᾂᾃᾄᾅᾆᾇᾐᾑᾒᾓᾔᾕᾖᾗᾠᾡᾢᾣᾤᾥᾦᾧᾰᾱᾳῃῐῑῠῡῥῳↄⓐⓑⓒⓓⓔⓕⓖⓗⓘⓙⓚⓛⓜⓝⓞⓟⓠⓡⓢⓣⓤⓥⓦⓧⓨⓩⲁⲃⲅⲇⲉⲋⲍⲏⲑⲓⲕⲗⲙⲛⲝⲟⲡⲣⲥⲧⲩⲫⲭⲯⲱⲳⲵⲷⲹⲻⲽⲿⳁⳃⳅⳇⳉⳋⳍⳏⳑⳓⳕⳗⳙⳛⳝⳟⳡⳣⳬⳮⳳꚁꚃꚅꚇꚉꚋꚍꚏꚑꚓꚕꚗꚙꚛꞁꞃꞅꞇꞌꞑꞓꞗꞙꞛꞝꞟꞡꞣꞥꞧꞩʞʇʝꞵꞷꞹꞻꞽꞿꟁꟃꞔʂᶎꟈꟊꟍ꟏ꟑꟓꟕꟗꟙꟛƛꟶ"

UpperBeyondSet == CharSet(UpperBeyond)

\* the capital letters whose lower case is a letter that no string here can
\* hold (U+0181, whose lower case is U+0253, is the first): toLowerCase
\* changes them, and the letter it gives cannot be written
UpperUnwritten == "ƁƆƉƊƏƐƓƔƖƗƜƝƟϽϾϿႠႡႢႣႤႥႦႧႨႩႪႫႬႭႮႯႰႱႲႳႴႵႶႷႸႹႺႻႼႽႾႿჀჁჂჃჄჅჇჍᎠᎡᎢᎣᎤᎥᎦᎧᎨᎩᎪᎫᎬᎭᎮᎯᾺΆῈΈῊΉῚΊῪΎῸΌῺΏꞍꞪꞫꞬꞭꞮꞳꟋ"

UpperUnwrittenSet == CharSet(UpperUnwritten)

\* the characters with the Unicode property Cased, and those with the property
\* Case_Ignorable, that a string here can hold (Unicode 17.0): the context
\* of Final_Sigma
CasedBeyond == "ªµºÀÁÂÃÄÅÆÇÈÉÊËÌÍÎÏÐÑÒÓÔÕÖØÙÚÛÜÝÞßàáâãäåæçèéêëìíîïðñòóôõöøùúûüýþÿƀƁƂƃƄƅƆƇƈƉƊƋƌƍƎƏƐƑƒƓƔƕƖƗƘƙƚƛƜƝƞƟƠơƢƣƤƥƦƧƨƩƪƫƬƭƮƯưƱƲƳƴƵƶƷƸƹƺƼƽƾƿǄǅǆǇǈǉǊǋǌǍǎǏǐǑǒǓǔǕǖǗǘǙǚǛǜǝǞǟǠǡǢǣǤǥǦǧǨǩǪǫǬǭǮǯǰǱǲǳǴǵǶǷǸǹǺǻǼǽǾǿʀʁʂʃʄʅʆʇʈʉʊʋʌʍʎʏʐʑʒʓʖʗʘʙʚʛʜʝʞʟʠʡʢʣʤʥʦʧʨʩʪʫʬʭʮʯʰʱʲʳʴʵʶʷʸˀˁˠˡˢˣˤΆΈΉΊΌΎΏΐΑΒΓΔΕΖΗΘΙΚΛΜΝΞΟΠΡΣΤΥΦΧΨΩΪΫάέήίΰαβγδεζηθικλμνξοπρςστυφχψωϊϋόύώϏϐϑϒϓϔϕϖϗϘϙϚϛϜϝϞϟϠϡϢϣϤϥϦϧϨϩϪϫϬϭϮϯϰϱϲϳϴϵϷϸϹϺϻϼϽϾϿҀҁҊҋҌҍҎҏҐґҒғҔҕҖҗҘҙҚқҜҝҞҟҠҡҢңҤҥҦҧҨҩҪҫҬҭҮүҰұҲҳҴҵҶҷҸҹҺһҼҽҾҿӀӁӂӃӄӅӆӇӈӉӊӋӌӍӎӏӐӑӒӓӔӕӖӗӘәӚӛӜӝӞӟӠӡӢӣӤӥӦӧӨөӪӫӬӭӮӯӰӱӲӳӴӵӶӷӸӹӺӻӼӽӾӿրցւփքօֆևֈႠႡႢႣႤႥႦႧႨႩႪႫႬႭႮႯႰႱႲႳႴႵႶႷႸႹႺႻႼႽႾႿჀჁჂჃჄჅჇჍაბგდევზთიკლმნოპჟრსტუფქღყშჩცძწჭხჯჰჱჲჳჴჵჶჷჸჹჺჼჽჾჿᎠᎡᎢᎣᎤᎥᎦᎧᎨᎩᎪᎫᎬᎭᎮᎯᎰᎱᎲᎳᎴᎵᎶᎷᎸᎹᎺᎻᎼᎽᎾᎿᏀᏁᏂᏃᏄᏅᏆᏇᏈᏉᏊᏋᏌᏍᏎᏏᏐᏑᏒᏓᏔᏕᏖᏗᏘᏙᏚᏛᏜᏝᏞᏟᏠᏡᏢᏣᏤᏥᏦᏧᏨᏩᏪᏫᏬᏭᏮᏯᏰᏱᏲᏳᏴᏵᏸᏹᏺᏻᏼᏽᲀᲁᲂᲃᲄᲅᲆᲇᲈᲉᲊᲐᲑᲒᲓᲔᲕᲖᲗᲘᲙᲚᲛᲜᲝᲞᲟᲠᲡᲢᲣᲤᲥᲦᲧᲨᲩᲪᲫᲬᲭᲮᲯᲰᲱᲲᲳᲴᲵᲶᲷᲸᲹᲺᲽᲾᲿᶀᶁᶂᶃᶄᶅᶆᶇᶈᶉᶊᶋᶌᶍᶎᶏᶐᶑᶒᶓᶔᶕᶖᶗᶘᶙᶚᶛᶜᶝᶞᶟᶠᶡᶢᶣᶤᶥᶦᶧᶨᶩᶪᶫᶬᶭᶮᶯᶰᶱᶲᶳᶴᶵᶶᶷᶸᶹᶺᶻᶼᶽᶾᶿẀẁẂẃẄẅẆẇẈẉẊẋẌẍẎẏẐẑẒẓẔẕẖẗẘẙẚẛẜẝẞẟẠạẢảẤấẦầẨẩẪẫẬậẮắẰằẲẳẴẵẶặẸẹẺẻẼẽẾếỀềỂểỄễỆệỈỉỊịỌọỎỏỐốỒồỔổỖỗỘộỚớỜờỞởỠỡỢợỤụỦủỨứỪừỬửỮữỰựỲỳỴỵỶỷỸỹỺỻỼỽỾỿᾀᾁᾂᾃᾄᾅᾆᾇᾈᾉᾊᾋᾌᾍᾎᾏᾐᾑᾒᾓᾔᾕᾖᾗᾘᾙᾚᾛᾜᾝᾞᾟᾠᾡᾢᾣᾤᾥᾦᾧᾨᾩᾪᾫᾬᾭᾮᾯᾰᾱᾲᾳᾴᾶᾷᾸᾹᾺΆᾼιῂῃῄῆῇῈΈῊΉῌῐῑῒΐῖῗῘῙῚΊῠῡῢΰῤῥῦῧῨῩῪΎῬῲῳῴῶῷῸΌῺΏῼₐₑₒₓₔₕₖₗₘₙₚₛₜↃↄⒶⒷⒸⒹⒺⒻⒼⒽⒾⒿⓀⓁⓂⓃⓄⓅⓆⓇⓈⓉⓊⓋⓌⓍⓎⓏⓐⓑⓒⓓⓔⓕⓖⓗⓘⓙⓚⓛⓜⓝⓞⓟⓠⓡⓢⓣⓤⓥⓦⓧⓨⓩⲀⲁⲂⲃⲄⲅⲆⲇⲈⲉⲊⲋⲌⲍⲎⲏⲐⲑⲒⲓⲔⲕⲖⲗⲘⲙⲚⲛⲜⲝⲞⲟⲠⲡⲢⲣⲤⲥⲦⲧⲨⲩⲪⲫⲬⲭⲮⲯⲰⲱⲲⲳⲴⲵⲶⲷⲸⲹⲺⲻⲼⲽⲾⲿⳀⳁⳂⳃⳄⳅⳆⳇⳈⳉⳊⳋⳌⳍⳎⳏⳐⳑⳒⳓⳔⳕⳖⳗⳘⳙⳚⳛⳜⳝⳞⳟⳠⳡⳢⳣⳤⳫⳬⳭⳮⳲⳳꚀꚁꚂꚃꚄꚅꚆꚇꚈꚉꚊꚋꚌꚍꚎꚏꚐꚑꚒꚓꚔꚕꚖꚗꚘꚙꚚꚛꚜꚝꞀꞁꞂꞃꞄꞅꞆꞇꞋꞌꞍꞎꞐꞑꞒꞓꞔꞕꞖꞗꞘꞙꞚꞛꞜꞝꞞꞟꞠꞡꞢꞣꞤꞥꞦꞧꞨꞩꞪꞫꞬꞭꞮꞯꞰꞱꞲꞳꞴꞵꞶꞷꞸꞹꞺꞻꞼꞽꞾꞿꟀꟁꟂꟃꟄꟅꟆꟇꟈꟉꟊꟋꟌꟍ꟎꟏Ꟑꟑ꟒ꟓ꟔ꟕꟖꟗꟘꟙꟚꟛꟜ꟱ꟲꟳꟴꟵꟶꟸꟹꟺꮀꮁꮂꮃꮄꮅꮆꮇꮈꮉꮊꮋꮌꮍꮎꮏꮐꮑꮒꮓꮔꮕꮖꮗꮘꮙꮚꮛꮜꮝꮞꮟꮠꮡꮢꮣꮤꮥꮦꮧꮨꮩꮪꮫꮬꮭꮮꮯꮰꮱꮲꮳꮴꮵꮶꮷꮸꮹꮺꮻꮼꮽꮾꮿ"
CaseIgnorableChars == "'.:^¨­¯´·¸ʰʱʲʳʴʵʶʷʸʹʺʻʼʽʾʿˀˁ˂˃˄˅ˆˇˈˉˊˋˌˍˎˏːˑ˒˓˔˕˖˗˘˙˚˛˜˝˞˟ˠˡˢˣˤ˥˦˧˨˩˪˫ˬ˭ˮ˯˰˱˲˳˴˵˶˷˸˹˺˻˼˽˾˿΄΅·҃҄҅҆҇҈҉ְֱֲֳִֵֶַָׇֹֺֻּֽֿׁׂ֑֖֛֢֣֤֥֦֧֪ׅ֚֭֮֒֓֔֕֗֘֙֜֝֞֟֠֡֨֩֫֬֯ׄ״ۖۗۘۙۚۛۜ۝ۣ۟۠ۡۢۤۥۦ۪ۭۧۨ۫۬ަާިީުޫެޭޮޯް߲߫߬߭߮߯߰߱߳ߴߵߺ߽࢈࢐࢑࢙࢚࢛ࢗ࢘࢜࢝࢞࢟ࣉ࣏࣐࣑࣒࣓࣊࣋࣌࣍࣎ࣔࣕࣖࣗࣘࣙࣚࣛࣜࣝࣞࣟ࣠࣡࣢ࣰࣱࣲࣣࣦࣩ࣭࣮࣯ࣶࣹࣺࣤࣥࣧࣨ࣪࣫࣬ࣳࣴࣵࣷࣸࣻࣼࣽࣾࣿঁ়ুূৃৄ্ৢৣ৾ઁં઼ુૂૃૄૅેૈ્ૢૣૺૻૼ૽૾૿ஂீ்ಁ಼ಿೆೌ್ೢೣඁ්ිීුූັິີຶື຺ຸູົຼໆ່້໊໋໌ໍ໎྄ཱྀྀྂྃ྆྇ྍྎྏྐྑྒྒྷྔྕྖྗྙྚྛྜྜྷྞྟྠྡྡྷྣྤྥྦྦྷྨྩྪྫྫྷྭྮྯྰྱྲླྴྵྶྷྸྐྵྺྻྼ࿆ႂႅႆႍႝჼ឴឵ិីឹឺុូួំ៉៊់៌៍៎៏័៑្៓ៗ៝ᢅᢆᢩᪧ᪵᪶᪷᪸᪹᪺᪽᪰᪱᪲᪳᪴᪻᪼᪾ᪿᫀ᫃᫄᫊᫁᫂᫅᫆᫇᫈᫉᫋ᫌᫍᫎ᫏᫐᫑᫒᫓᫔᫕᫖᫗᫘᫙᫚᫛᫜᫝᫠᫡᫢᫣᫤᫥᫦᫧᫨᫩᫪᫫ᮀᮁᮢᮣᮤᮥᮨᮩ᮫ᮬᮭ᯦ᯨᯩᯭᯯᯰᯱ᳔᳢᳣᳤᳥᳦᳧᳨᳕᳖᳗᳘᳙᳜᳝᳞᳟᳭᳐᳑᳒᳚᳛᳠᳴᳸᳹ᶛᶜᶝᶞᶟᶠᶡᶢᶣᶤᶥᶦᶧᶨᶩᶪᶫᶬᶭᶮᶯᶰᶱᶲᶳᶴᶵᶶᶷᶸᶹᶺᶻᶼᶽᶾᶿ᷐᷎᷺᷂᷊᷏᷹᷽᷿᷷᷸᷀᷁᷃᷄᷅᷆᷇᷈᷉᷋᷌᷑᷒ᷓᷔᷕᷖᷗᷘᷙᷚᷛᷜᷝᷞᷟᷠᷡᷢᷣᷤᷥᷦᷧᷨᷩᷪᷫᷬᷭᷮᷯᷰᷱᷲᷳᷴ᷵᷻᷾᷶᷼᷍᾽᾿῀῁῍῎῏῝῞῟῭΅`´῾ₐₑₒₓₔₕₖₗₘₙₚₛₜ⃒⃓⃘⃙⃚⃐⃑⃔⃕⃖⃗⃛⃜⃝⃞⃟⃠⃡⃢⃣⃤⃥⃦⃪⃫゙゚⃨⃬⃭⃮⃯⃧⃩⃰⳯⳰⳱ⷠⷡⷢⷣⷤⷥⷦⷧⷨⷩⷪⷫⷬⷭⷮⷯⷰⷱⷲⷳⷴⷵⷶⷷⷸⷹⷺⷻⷼⷽⷾⷿ゛゜ゝゞーヽヾꓸꓹꓺꓻꓼꓽꚜꚝꚞꚟ꛰꛱ꞈ꞉꞊꟱ꟲꟳꟴꟸꟹ꣄ꣅ꣠꣡꣢꣣꣤꣥꣦꣧꣨꣩꣪꣫꣬꣭꣮꣯꣰꣱ꣿꦀꦁꦂ꦳ꦶꦷꦸꦹꦼꦽꧏꧥꧦꪴꪰꪲꪳꪷꪸꪾ꪿꫁ꫝꫬꫭꫳꫴ꫶ꯥꯨ꯭﮲﮳﮴﮵﮶﮷﮸﮹﮺﮻﮼﮽﮾﮿﯀﯁﯂﻿ﾞﾟ￣￹￺￻"

CasedSet == UpperSet \cup LowerSet \cup CharSet(CasedBeyond)
CaseIgnorableSet == CharSet(CaseIgnorableChars)

CapitalSigma == "Σ"
SmallSigma == "σ"
FinalSigma == "ς"

\* String.toLowerCase of one character.  On a letter of UpperUnwritten the
\* result is a letter that cannot be written: it is left unspecified, never
\* taken to be the letter itself.
toLowerChar(c) ==
    IF c \in UpperSet
    THEN CharAt(LowerChars, CHOOSE k \in 1..Len(UpperChars) : CharAt(UpperChars, k) = c)
    ELSE IF c \in LowerSet \/ c \in DigitSet THEN c
    ELSE IF c = CapitalSigma THEN SmallSigma
    ELSE IF c \in UpperBeyondSet
    THEN CharAt(LowerBeyond, CHOOSE k \in 1..Len(UpperBeyond) : CharAt(UpperBeyond, k) = c)
    ELSE IF c \in UpperUnwrittenSet
    THEN CHOOSE l \in {} : TRUE
    ELSE c

toUpperChar(c) ==
    IF c \in LowerSet
    THEN CharAt(UpperChars, CHOOSE k \in 1..Len(LowerChars) : CharAt(LowerChars, k) = c)
    ELSE c

\* the condition Final_Sigma of Unicode's SpecialCasing at position k, as the
\* engine tests it: going back over the case-ignorable characters before k
\* it meets a cased letter, and going on over the case-ignorable characters
\* after k it meets none.  A character that is both cased and
\* case-ignorable is passed over as case-ignorable.
IsFinalSigma(s, k) ==
    /\ \E j \in 1..(k - 1) :
          /\ CharAt(s, j) \in CasedSet
          /\ CharAt(s, j) \notin CaseIgnorableSet
          /\ \A i \in (j + 1)..(k - 1) : CharAt(s, i) \in CaseIgnorableSet
    /\ ~ \E j \in (k + 1)..Len(s) :
            /\ CharAt(s, j) \in CasedSet
            /\ CharAt(s, j) \notin CaseIgnorableSet
            /\ \A i \in (k + 1)..(j - 1) : CharAt(s, i) \in CaseIgnorableSet

\* String.toLowerCase of the character at position k of s
LowerAt(s, k) ==
    IF CharAt(s, k) = CapitalSigma /\ IsFinalSigma(s, k) THEN FinalSigma
    ELSE toLowerChar(CharAt(s, k))

RECURSIVE LowerFrom(_, _)
LowerFrom(s, k) ==
    IF k > Len(s) THEN "" ELSE LowerAt(s, k) \o LowerFrom(s, k + 1)

\* String.toLowerCase
toLowerCase(s) == LowerFrom(s, 1)

\* p occurs in s at position k
MatchAt(s, p, k) == k >= 1 /\ k + Len(p) - 1 <= Len(s) /\ SubSeq(s, k, k + Len(p) - 1) = p

startsWith(s, p) == MatchAt(s, p, 1)

\* String.indexOf, 1-based; 0 when p does not occur at or after position k
RECURSIVE IndexFrom(_, _, _)
IndexFrom(s, p, k) ==
    IF k + Len(p) - 1 > Len(s) THEN 0
    ELSE IF MatchAt(s, p, k) THEN k
    ELSE IndexFrom(s, p, k + 1)

indexOf(s, p) == IndexFrom(s, p, 1)

includes(s, p) == indexOf(s, p) # 0

\* first position >= k holding no white space (Len(s) + 1 when there is none)
RECURSIVE SkipSpaces(_, _)
SkipSpaces(s, k) ==
    IF k <= Len(s) /\ IsSpace(CharAt(s, k)) THEN SkipSpaces(s, k + 1) ELSE k

\* first position >= k holding no word character
RECURSIVE SkipWord(_, _)
SkipWord(s, k) ==
    IF k <= Len(s) /\ IsWordChar(CharAt(s, k)) THEN SkipWord(s, k + 1) ELSE k

\* first position >= k holding a word character
RECURSIVE SkipNonWord(_, _)
SkipNonWord(s, k) ==
    IF k <= Len(s) /\ ~IsWordChar(CharAt(s, k)) THEN SkipNonWord(s, k + 1) ELSE k

\* first position >= k holding a line terminator (Len(s) + 1 when there is
\* none): where .* and .+ started at k stop
DotEnd(s, k) ==
    LET es == {e \in k..Len(s) : IsLineTerminator(CharAt(s, e))}
    IN  IF es = {} THEN Len(s) + 1 ELSE CHOOSE e \in es : \A d \in es : e <= d

\* last position <= k holding no white space (0 when there is none)
RECURSIVE SkipSpacesBack(_, _)
SkipSpacesBack(s, k) ==
    IF k >= 1 /\ IsSpace(CharAt(s, k)) THEN SkipSpacesBack(s, k - 1) ELSE k

trimEnd(s) == SubSeq(s, 1, SkipSpacesBack(s, Len(s)))

trimStart(s) == SubSeq(s, SkipSpaces(s, 1), Len(s))

trim(s) == trimEnd(trimStart(s))

\* the replacement patterns of String.replace when the pattern has no
\* capture group: $$ is a dollar sign, $& the matched text, $' the text
\* after the match; any other $ stands for itself.  (The pattern for the
\* text before the match is a $ followed by a grave accent, a character
\* that cannot be written in a string here.)
RECURSIVE GetSubstitution(_, _, _)
GetSubstitution(rep, matched, after) ==
    LET k == indexOf(rep, "$")
    IN  IF k = 0 \/ k = Len(rep) THEN rep
        ELSE LET c    == CharAt(rep, k + 1)
                 sub  == IF c = "$" THEN <<"$">>
                         ELSE IF c = "&" THEN <<matched>>
                         ELSE IF c = "'" THEN <<after>>
                         ELSE <<>>
             IN  IF sub # <<>>
                 THEN SubSeq(rep, 1, k - 1) \o sub[1]
                          \o GetSubstitution(SubSeq(rep, k + 2, Len(rep)), matched, after)
                 ELSE SubSeq(rep, 1, k)
                          \o GetSubstitution(SubSeq(rep, k + 1, Len(rep)), matched, after)

\* String.replace(pattern, replacement) with a string pattern, and with the
\* RegExp built from an escaped literal: the first occurrence only, the
\* replacement read as a replacement pattern
replace(s, pat, rep) ==
    LET k == indexOf(s, pat)
    IN  IF k = 0 THEN s
        ELSE LET before == SubSeq(s, 1, k - 1)
                 after  == SubSeq(s, k + Len(pat), Len(s))
             IN  before \o GetSubstitution(rep, pat, after) \o after

(***************************************************************************)
(* Identifier Classifier and Name Transformer.                             *)
(***************************************************************************)
\* str === str.toLowerCase(): a string that holds a letter of UpperUnwritten
\* differs from its lower case, whose letters cannot all be written
shouldTransform(str) ==
    IF \E k \in 1..Len(str) : CharAt(str, k) \in UpperUnwrittenSet
    THEN FALSE
    ELSE str = toLowerCase(str)

\* change-case: the words of an identifier, split at runs of characters that
\* are neither letters nor digits.  (The script calls camelCase and
\* pascalCase only on identifiers that pass shouldTransform, so the
\* lower-to-upper word boundaries of change-case never occur.)
RECURSIVE SkipAlnum(_, _)
SkipAlnum(s, k) ==
    IF k <= Len(s) /\ IsAlnum(CharAt(s, k)) THEN SkipAlnum(s, k + 1) ELSE k

RECURSIVE SkipNonAlnum(_, _)
SkipNonAlnum(s, k) ==
    IF k <= Len(s) /\ ~IsAlnum(CharAt(s, k)) THEN SkipNonAlnum(s, k + 1) ELSE k

RECURSIVE SplitWords(_, _)
SplitWords(s, k) ==
    LET b == SkipNonAlnum(s, k)
        e == SkipAlnum(s, b)
    IN  IF b > Len(s) THEN <<>>
        ELSE <<SubSeq(s, b, e - 1)>> \o SplitWords(s, e)

\* change-case pascalCaseTransform(word, index), index counted from 0
pascalCaseTransform(word, index) ==
    LET char0 == CharAt(word, 1)
        rest  == toLowerCase(SubSeq(word, 2, Len(word)))
    IN  IF index > 0 /\ char0 \in DigitSet
        THEN "_" \o char0 \o rest
        ELSE toUpperChar(char0) \o rest

RECURSIVE JoinPascal(_, _)
JoinPascal(words, index) ==
    IF index >= Len(words) THEN ""
    ELSE pascalCaseTransform(words[index + 1], index) \o JoinPascal(words, index + 1)

pascalCase(s) == JoinPascal(SplitWords(s, 1), 0)

\* camelCase with the first word capitalized like the others
camelCaseCapitalFirst(s) == pascalCase(s)

camelCase(s) ==
    LET words == SplitWords(s, 1)
    IN  IF Len(words) = 0 THEN ""
        ELSE toLowerCase(words[1]) \o JoinPascal(words, 1)

EndsWith(s, p) == MatchAt(s, p, Len(s) - Len(p) + 1)

\* pluralize.singular, restricted to the rules that decide the names of
\* this model: /ies$/ -> y, /(ss)$/ -> ss, /s$/ -> '' (tried in that order).
singular(word) ==
    IF EndsWith(word, "ies") THEN SubSeq(word, 1, Len(word) - 3) \o "y"
    ELSE IF EndsWith(word, "ss") THEN word
    ELSE IF EndsWith(word, "s") THEN SubSeq(word, 1, Len(word) - 1)
    ELSE word

transformTableName(tableName) == pascalCase(singular(tableName))

(***************************************************************************)
(* JavaScript Map: the entries in insertion order, as <<key, value>> pairs. *)
(***************************************************************************)
MapHas(m, key) == \E k \in 1..Len(m) : m[k][1] = key

\* Map.get: <<>> for undefined, <<value>> otherwise
MapGet(m, key) ==
    IF MapHas(m, key)
    THEN <<m[CHOOSE k \in 1..Len(m) : m[k][1] = key][2]>>
    ELSE <<>>

\* Map.set: a key already present keeps its place and takes the new value
MapSet(m, key, value) ==
    IF MapHas(m, key)
    THEN [k \in 1..Len(m) |-> IF m[k][1] = key THEN <<key, value>> ELSE m[k]]
    ELSE Append(m, <<key, value>>)

\* tables.forEach(...): the table names the classifier flags, each mapped to
\* its transformed name
RECURSIVE BuildTableMap(_, _)
BuildTableMap(ts, m) ==
    IF Len(ts) = 0 THEN m
    ELSE BuildTableMap(Tail(ts),
            IF shouldTransform(Head(ts))
            THEN MapSet(m, Head(ts), transformTableName(Head(ts)))
            ELSE m)

columnKeyOf(tableName, columnName) == tableName \o "." \o columnName

\* columns.forEach(...): cs holds <<TABLE_NAME, COLUMN_NAME>> rows
RECURSIVE BuildColumnMap(_, _)
BuildColumnMap(cs, m) ==
    IF Len(cs) = 0 THEN m
    ELSE BuildColumnMap(Tail(cs),
            IF shouldTransform(Head(cs)[2])
            THEN MapSet(m, columnKeyOf(Head(cs)[1], Head(cs)[2]), camelCase(Head(cs)[2]))
            ELSE m)

\* columnMap.get(columnKey) || fallback: undefined and '' are both falsy
MappedOr(cm, key, fallback) ==
    LET got == MapGet(cm, key)
    IN  IF Len(got) = 1 /\ got[1] # "" THEN got[1] ELSE fallback

(***************************************************************************)
(* The regular expressions of the script.  A match is <<>> (null) or the   *)
(* tuple of the groups the script reads.                                   *)
(***************************************************************************)
IsQuote(c) == c \in {"\"", "'"}

\* trimmedLine.match(/^model\s+(\w+)\s+{/): <<>> or <<model name>>
modelMatch(trimmedLine) ==
    LET a == Len("model") + 1
        b == SkipSpaces(trimmedLine, a)
        c == SkipWord(trimmedLine, b)
        d == SkipSpaces(trimmedLine, c)
    IN  IF /\ startsWith(trimmedLine, "model")
           /\ b > a
           /\ c > b
           /\ d > c
           /\ CharAt(trimmedLine, d) = "{"
        THEN <<SubSeq(trimmedLine, b, c - 1)>>
        ELSE <<>>

\* first position >= k holding a quote character
RECURSIVE SkipNonQuote(_, _)
SkipNonQuote(s, k) ==
    IF k <= Len(s) /\ ~IsQuote(CharAt(s, k)) THEN SkipNonQuote(s, k + 1) ELSE k

\* /@map\s*\(\s*["']([^"']+)["']\s*\)/ tried at position k
DbNameAt(s, k) ==
    LET b == SkipSpaces(s, k + Len("@map"))
        d == SkipSpaces(s, b + 1)
        e == d + 1
        f == SkipNonQuote(s, e)
        h == SkipSpaces(s, f + 1)
    IN  IF /\ MatchAt(s, "@map", k)
           /\ CharAt(s, b) = "("
           /\ IsQuote(CharAt(s, d))
           /\ f > e
           /\ f <= Len(s)
           /\ CharAt(s, h) = ")"
        THEN <<SubSeq(s, e, f - 1)>>
        ELSE <<>>

RECURSIVE DbNameFrom(_, _)
DbNameFrom(s, k) ==
    IF k > Len(s) THEN <<>>
    ELSE IF DbNameAt(s, k) # <<>> THEN DbNameAt(s, k)
    ELSE DbNameFrom(s, k + 1)

\* lines[j].match(/@map\s*\(\s*["']([^"']+)["']\s*\)/): <<>> or <<name>>
dbNameMatch(s) == DbNameFrom(s, 1)

DirectiveKeywords == {"@@index", "@@unique", "@@id", "@@fulltext"}

\* trimmedLine.match(/^@@(index|unique|id|fulltext)/)
IsDirectiveStart(trimmedLine) == \E kw \in DirectiveKeywords : startsWith(trimmedLine, kw)

\* /@@(?:index|unique|id|fulltext)\s*\(\s*\[(.*?)\]/ tried at position k with
\* keyword kw
DirectiveAt(s, k, kw) ==
    LET b == SkipSpaces(s, k + Len(kw))
        d == SkipSpaces(s, b + 1)
        f == IndexFrom(s, "]", d + 1)
    IN  IF /\ MatchAt(s, kw, k)
           /\ CharAt(s, b) = "("
           /\ CharAt(s, d) = "["
           /\ f # 0
           /\ DotEnd(s, d + 1) > f
        THEN <<SubSeq(s, d + 1, f - 1)>>
        ELSE <<>>

RECURSIVE DirectiveFrom(_, _)
DirectiveFrom(s, k) ==
    IF k > Len(s) THEN <<>>
    ELSE IF \E kw \in DirectiveKeywords : DirectiveAt(s, k, kw) # <<>>
         THEN DirectiveAt(s, k, CHOOSE kw \in DirectiveKeywords : DirectiveAt(s, k, kw) # <<>>)
    ELSE DirectiveFrom(s, k + 1)

\* line.match(/@@(?:index|unique|id|fulltext)\s*\(\s*\[(.*?)\]/): <<>> or
\* <<fieldsStr>>
directiveMatch(line) == DirectiveFrom(line, 1)

\* the successive fieldPattern.exec(fieldsStr) matches of
\* /(\w+)(\([^)]*\))?/g from position k: [full, name, params] each
RECURSIVE FieldMatches(_, _)
FieldMatches(fieldsStr, k) ==
    LET b == SkipNonWord(fieldsStr, k)
        c == SkipWord(fieldsStr, b)
        d == IF CharAt(fieldsStr, c) = "(" THEN IndexFrom(fieldsStr, ")", c + 1) ELSE 0
    IN  IF b > Len(fieldsStr) THEN <<>>
        ELSE IF d # 0
        THEN <<[full   |-> SubSeq(fieldsStr, b, d),
                name   |-> SubSeq(fieldsStr, b, c - 1),
                params |-> SubSeq(fieldsStr, c, d)]>> \o FieldMatches(fieldsStr, d + 1)
        ELSE <<[full   |-> SubSeq(fieldsStr, b, c - 1),
                name   |-> SubSeq(fieldsStr, b, c - 1),
                params |-> ""]>> \o FieldMatches(fieldsStr, c)

\* one turn of the while loop of transformDirectiveFields
ReplaceField(transformedFieldsStr, fieldMatch, columnMap, currentTable) ==
    IF shouldTransform(fieldMatch.name)
    THEN LET columnKey      == columnKeyOf(currentTable, fieldMatch.name)
             camelFieldName == MappedOr(columnMap, columnKey, camelCase(fieldMatch.name))
             replacement    == camelFieldName \o fieldMatch.params
         IN  replace(transformedFieldsStr, fieldMatch.full, replacement)
    ELSE transformedFieldsStr

RECURSIVE ReplaceFields(_, _, _, _)
ReplaceFields(transformedFieldsStr, matches, columnMap, currentTable) ==
    IF Len(matches) = 0 THEN transformedFieldsStr
    ELSE ReplaceFields(
            ReplaceField(transformedFieldsStr, Head(matches), columnMap, currentTable),
            Tail(matches), columnMap, currentTable)

transformDirectiveFields(line, columnMap, currentTable) ==
    LET dm == directiveMatch(line)
    IN  IF dm = <<>> THEN line
        ELSE LET fieldsStr == dm[1]
                 transformedFieldsStr ==
                     ReplaceFields(fieldsStr, FieldMatches(fieldsStr, 1), columnMap, currentTable)
             IN  replace(line, "[" \o fieldsStr \o "]", "[" \o transformedFieldsStr \o "]")

(***************************************************************************)
(* The walker of convertToCamelAndPascal.  A cursor is the record of the   *)
(* loop's variables; each branch of the loop body is an operator from the  *)
(* cursor before the line to the cursor after it.                          *)
(***************************************************************************)
Null == <<>>

\* JavaScript truthiness of a string | null
Truthy(v) == Len(v) = 1 /\ v[1] # ""

InitialCursor ==
    [currentModel  |-> Null,
     currentTable  |-> Null,
     inModelBlock  |-> FALSE,
     tableHasMap   |-> FALSE,
     enhancedLines |-> <<>>]

\* the for loop over j: the first line with '@@map(' before a line that
\* starts with '}' (or the end of the text); name is what dbNameMatch reads
RECURSIVE LookAhead(_, _)
LookAhead(ls, j) ==
    IF j > Len(ls) \/ startsWith(trim(ls[j]), "}")
    THEN [found |-> FALSE, name |-> Null]
    ELSE IF includes(ls[j], "@@map(")
    THEN [found |-> TRUE, name |-> dbNameMatch(ls[j])]
    ELSE LookAhead(ls, j + 1)

\* the for loop over tableMap.entries(): <<>> when no entry matches, else
\* <<tableName, header line>> of the first entry that does
RECURSIVE FindTable(_, _, _)
FindTable(tm, k, currentModel) ==
    IF k > Len(tm) THEN <<>>
    ELSE LET tableName       == tm[k][1]
             transformedName == tm[k][2]
         IN  IF transformedName = currentModel
             THEN <<tableName, "model " \o transformedName \o " {">>
             ELSE IF \/ tableName = toLowerCase(currentModel)
                     \/ transformTableName(tableName) = currentModel
             THEN <<tableName, "model " \o transformTableName(tableName) \o " {">>
             ELSE FindTable(tm, k + 1, currentModel)

\* the '@@map' line pushed after a header
MapLine(currentTable) == "  @@map(\"" \o currentTable \o "\")"

\* lines 139-198: a model header
HeaderBranch(cur, ls, i, tm) ==
    LET line         == trimEnd(ls[i])
        currentModel == modelMatch(trim(line))[1]
        ahead        == LookAhead(ls, i + 1)
        tableHasMap  == ahead.found
        found        == FindTable(tm, 1, currentModel)
        currentTable ==
            IF tableHasMap
            THEN (IF ahead.name # Null THEN ahead.name ELSE cur.currentTable)
            ELSE IF found # <<>> THEN <<found[1]>>
            ELSE <<toLowerCase(currentModel)>>
        enhancedLine ==
            IF ~tableHasMap /\ found # <<>> THEN found[2] ELSE line
        mapLines ==
            IF /\ ~tableHasMap
               /\ Truthy(currentTable)
               /\ transformTableName(currentTable[1]) # currentTable[1]
            THEN <<MapLine(currentTable[1])>>
            ELSE <<>>
    IN  [currentModel  |-> <<currentModel>>,
         currentTable  |-> currentTable,
         inModelBlock  |-> TRUE,
         tableHasMap   |-> tableHasMap,
         enhancedLines |-> cur.enhancedLines \o <<enhancedLine>> \o mapLines]

\* the end of a model block without the push of its line
CloseBranchSilent(cur, ls, i) ==
    [cur EXCEPT !.inModelBlock  = FALSE,
                !.currentModel  = Null,
                !.currentTable  = Null]

\* lines 201-207: the end of a model block
CloseBranch(cur, ls, i) ==
    [cur EXCEPT !.inModelBlock  = FALSE,
                !.currentModel  = Null,
                !.currentTable  = Null,
                !.enhancedLines = Append(@, trimEnd(ls[i]))]

\* lines 210-214: an @@index / @@unique / @@id / @@fulltext line
DirectiveBranch(cur, ls, i, cm) ==
    [cur EXCEPT !.enhancedLines =
        Append(@, transformDirectiveFields(trimEnd(ls[i]), cm, cur.currentTable[1]))]

\* trimmedLine.match(/^(\w+)\s+(.+)/): <<>> or <<fieldName, fieldRest>>
fieldMatch(trimmedLine) ==
    LET c == SkipWord(trimmedLine, 1)
        d == SkipSpaces(trimmedLine, c)
    IN  IF c > 1 /\ d > c /\ d <= Len(trimmedLine)
        THEN <<SubSeq(trimmedLine, 1, c - 1),
               SubSeq(trimmedLine, d, DotEnd(trimmedLine, d) - 1)>>
        ELSE <<>>

\* line.replace(new RegExp(`^(\\s*)${fieldName}\\s+`), `$1${mappedFieldName} `)
ReplaceLeadingName(line, fieldName, mappedFieldName) ==
    LET b == SkipSpaces(line, 1)
        c == b + Len(fieldName)
        d == SkipSpaces(line, c)
    IN  IF MatchAt(line, fieldName, b) /\ d > c
        THEN SubSeq(line, 1, b - 1) \o mappedFieldName \o " " \o SubSeq(line, d, Len(line))
        ELSE line

\* lines 219-243: the line a field declaration is emitted as
FieldLineOf(line, cm, currentTable) ==
    LET fm == fieldMatch(trim(line))
    IN  IF fm = <<>> THEN line
        ELSE LET fieldName      == fm[1]
                 fieldRest      == fm[2]
                 hasMap         == includes(fieldRest, "@map(")
                 camelFieldName == camelCase(fieldName)
                 columnKey      == columnKeyOf(currentTable, fieldName)
                 mappedFieldName == MappedOr(cm, columnKey, camelFieldName)
             IN  IF ~hasMap /\ shouldTransform(fieldName) /\ camelFieldName # fieldName
                 THEN ReplaceLeadingName(line, fieldName, mappedFieldName)
                          \o " @map(\"" \o fieldName \o "\")"
                 ELSE line

\* lines 217-246 with the cursor inside a block that has a table name
FieldBranch(cur, ls, i, cm) ==
    [cur EXCEPT !.enhancedLines =
        Append(@, FieldLineOf(trimEnd(ls[i]), cm, cur.currentTable[1]))]

\* the line pushed with its trailing white space
PlainBranchUntrimmed(cur, ls, i) ==
    [cur EXCEPT !.enhancedLines = Append(@, ls[i])]

\* lines 217 and 246 otherwise: the line is pushed as it is
PlainBranch(cur, ls, i) ==
    [cur EXCEPT !.enhancedLines = Append(@, trimEnd(ls[i]))]

\* the branch taken when the block end is tested like the look-ahead tests
\* it: a line that starts with a closing brace
LineKindClosePrefix(cur, ls, i) ==
    LET trimmedLine == trim(trimEnd(ls[i]))
    IN  IF modelMatch(trimmedLine) # <<>> THEN "header"
        ELSE IF cur.inModelBlock /\ startsWith(trimmedLine, "}") THEN "close"
        ELSE IF /\ cur.inModelBlock
                /\ Truthy(cur.currentTable)
                /\ IsDirectiveStart(trimmedLine)
        THEN "directive"
        ELSE IF /\ cur.inModelBlock
                /\ Truthy(cur.currentModel)
                /\ Truthy(cur.currentTable)
        THEN "field"
        ELSE "plain"

\* which branch of the loop body takes line i: the if statements of lines
\* 139, 201, 210 and 217, in that order
LineKind(cur, ls, i) ==
    LET trimmedLine == trim(trimEnd(ls[i]))
    IN  IF modelMatch(trimmedLine) # <<>> THEN "header"
        ELSE IF cur.inModelBlock /\ trimmedLine = "}" THEN "close"
        ELSE IF /\ cur.inModelBlock
                /\ Truthy(cur.currentTable)
                /\ IsDirectiveStart(trimmedLine)
        THEN "directive"
        ELSE IF /\ cur.inModelBlock
                /\ Truthy(cur.currentModel)
                /\ Truthy(cur.currentTable)
        THEN "field"
        ELSE "plain"

\* one turn of the for loop over i
ProcessLine(cur, ls, i, tm, cm) ==
    LET kind == LineKind(cur, ls, i)
    IN  IF kind = "header" THEN HeaderBranch(cur, ls, i, tm)
        ELSE IF kind = "close" THEN CloseBranch(cur, ls, i)
        ELSE IF kind = "directive" THEN DirectiveBranch(cur, ls, i, cm)
        ELSE IF kind = "field" THEN FieldBranch(cur, ls, i, cm)
        ELSE PlainBranch(cur, ls, i)

\* the whole loop, from line i + 1 on
RECURSIVE ProcessFrom(_, _, _, _, _)
ProcessFrom(cur, ls, i, tm, cm) ==
    IF i >= Len(ls) THEN cur
    ELSE ProcessFrom(ProcessLine(cur, ls, i + 1, tm, cm), ls, i + 1, tm, cm)

\* originalSchema.split('\n') and enhancedLines.join('\n')
RECURSIVE split(_)
split(text) ==
    LET k == indexOf(text, "\n")
    IN  IF k = 0 THEN <<text>>
        ELSE <<SubSeq(text, 1, k - 1)>> \o split(SubSeq(text, k + 1, Len(text)))

RECURSIVE join(_)
join(ls) ==
    IF Len(ls) = 0 THEN ""
    ELSE IF Len(ls) = 1 THEN ls[1]
    ELSE ls[1] \o "\n" \o join(Tail(ls))

\* the text convertToCamelAndPascal writes for a schema text and a catalog
Convert(originalSchema, tableRows, columnRows) ==
    join(ProcessFrom(InitialCursor, split(originalSchema), 0,
                     BuildTableMap(tableRows, <<>>),
                     BuildColumnMap(columnRows, <<>>)).enhancedLines)

(***************************************************************************)
(* dbCommentPull.ts: syncMySQLComments.  The two clean-up replacements work *)
(* on the whole text, where \s also matches a line feed.                   *)
(***************************************************************************)
\* \s on a text of several lines
IsWs(c) == c \in WhiteSpaceSet

\* first position >= k holding no white space, line feeds included
RECURSIVE SkipWs(_, _)
SkipWs(s, k) ==
    IF k <= Len(s) /\ IsWs(CharAt(s, k)) THEN SkipWs(s, k + 1) ELSE k

\* the position of the line terminator that ends the line of position k
\* (Len(s) + 1 on the last line): where .* stops and $ holds under /m
EndOfLine(s, k) == DotEnd(s, k)

\* /\s*\/\/\/\s*@comment\s*.*$/m tried at position k: 0, or the position
\* after the match
LineCommentEnd(s, k) ==
    LET a == SkipWs(s, k)
        b == SkipWs(s, a + Len("///"))
        d == SkipWs(s, b + Len("@comment"))
    IN  IF MatchAt(s, "///", a) /\ MatchAt(s, "@comment", b)
        THEN EndOfLine(s, d)
        ELSE 0

\* \s*$ under /m tried at position q: 0, or the position after the longest
\* run of white space that ends where a line ends (at the end of the text
\* or before a line terminator)
TailEnd(s, q) ==
    LET w  == SkipWs(s, q)
        rs == {r \in q..w : r > Len(s) \/ IsLineTerminator(CharAt(s, r))}
    IN  IF rs = {} THEN 0
        ELSE CHOOSE r \in rs : \A t \in rs : t <= r

\* /\s*\/\*\s*@comment\s*.*\*\/\s*$/m tried at position k: 0, or the
\* position after the match.  \s* after @comment and .* are greedy: the
\* longest white space w for which the line holds a closing */ followed by
\* \s*$, and for it the last such */.
BlockCommentEnd(s, k) ==
    LET a  == SkipWs(s, k)
        b  == SkipWs(s, a + Len("/*"))
        c  == b + Len("@comment")
        d  == SkipWs(s, c)
        Closers(w) == {p \in w..(EndOfLine(s, w) - 2) :
                          MatchAt(s, "*/", p) /\ TailEnd(s, p + 2) # 0}
        ws == {w \in c..d : Closers(w) # {}}
    IN  IF MatchAt(s, "/*", a) /\ MatchAt(s, "@comment", b) /\ ws # {}
        THEN LET w == CHOOSE x \in ws : \A y \in ws : y <= x
                 p == CHOOSE x \in Closers(w) : \A y \in Closers(w) : y <= x
             IN  TailEnd(s, p + 2)
        ELSE 0

\* originalSchema.replace(/\s*\/\/\/\s*@comment\s*.*$/gm, ''): the leftmost
\* match is cut out and the search goes on behind it
RECURSIVE CleanLineComments(_)
CleanLineComments(s) ==
    LET ks == {k \in 1..Len(s) : LineCommentEnd(s, k) # 0}
        k  == CHOOSE x \in ks : \A y \in ks : x <= y
    IN  IF ks = {} THEN s
        ELSE SubSeq(s, 1, k - 1)
                 \o CleanLineComments(SubSeq(s, LineCommentEnd(s, k), Len(s)))

\* cleanSchema.replace(/\s*\/\*\s*@comment\s*.*\*\/\s*$/gm, '')
RECURSIVE CleanBlockComments(_)
CleanBlockComments(s) ==
    LET ks == {k \in 1..Len(s) : BlockCommentEnd(s, k) # 0}
        k  == CHOOSE x \in ks : \A y \in ks : x <= y
    IN  IF ks = {} THEN s
        ELSE SubSeq(s, 1, k - 1)
                 \o CleanBlockComments(SubSeq(s, BlockCommentEnd(s, k), Len(s)))

cleanSchema(originalSchema) == CleanBlockComments(CleanLineComments(originalSchema))

\* tableComments.forEach(...): TABLE_NAME -> TABLE_COMMENT, rows as
\* <<TABLE_NAME, TABLE_COMMENT>>
RECURSIVE BuildTableComments(_, _)
BuildTableComments(rows, m) ==
    IF Len(rows) = 0 THEN m
    ELSE BuildTableComments(Tail(rows), MapSet(m, Head(rows)[1], Head(rows)[2]))

\* columnComments.forEach(...): 'TABLE_NAME.COLUMN_NAME' -> COLUMN_COMMENT,
\* rows as <<TABLE_NAME, COLUMN_NAME, COLUMN_COMMENT>>
RECURSIVE BuildColumnComments(_, _)
BuildColumnComments(rows, m) ==
    IF Len(rows) = 0 THEN m
    ELSE BuildColumnComments(Tail(rows),
            MapSet(m, columnKeyOf(Head(rows)[1], Head(rows)[2]), Head(rows)[3]))

\* line.match(/^\s*/)[0]
indentationOf(line) == SubSeq(line, 1, SkipSpaces(line, 1) - 1)

\* lines[j].trim().match(/^@@map\s*\(\s*["']([^"']+)["']\s*\)/): <<>> or <<name>>
mapMatch(trimmedLine) ==
    IF CharAt(trimmedLine, 1) = "@" THEN DbNameAt(trimmedLine, 2) ELSE <<>>

\* the first for loop over j: the first line after line i that is a lone
\* closing brace, line i itself when there is none
modelEndLineOf(ls, i) ==
    LET es == {j \in (i + 1)..Len(ls) : trim(ls[j]) = "}"}
    IN  IF es = {} THEN i ELSE CHOOSE j \in es : \A k \in es : j <= k

\* the second for loop over j: the name of the first @@map line of the
\* block, the model name when there is none
pullTableOf(ls, i, currentModel) ==
    LET ms == {j \in (i + 1)..modelEndLineOf(ls, i) : mapMatch(trim(ls[j])) # <<>>}
    IN  IF ms = {} THEN currentModel
        ELSE mapMatch(trim(ls[CHOOSE j \in ms : \A k \in ms : j <= k]))[1]

\* the comment line pushed above a definition
commentLine(indentation, comment) == indentation \o "/* @comment " \o comment \o " */"

\* the lines pushed for a definition: its comment line when the map holds a
\* non-empty comment under key, then the line
WithComment(commentsMap, key, line) ==
    LET comment == MapGet(commentsMap, key)
    IN  IF Truthy(comment)
        THEN <<commentLine(indentationOf(line), comment[1]), line>>
        ELSE <<line>>

PullInitialCursor ==
    [currentModel |-> Null, currentTable |-> Null, inModelBlock |-> FALSE,
     resultLines  |-> <<>>]

\* one turn of the for loop over i of syncMySQLComments
PullLine(cur, ls, i, tableCommentsMap, columnCommentsMap) ==
    LET line        == trimEnd(ls[i])
        trimmedLine == trim(line)
        mm          == modelMatch(trimmedLine)
        fm          == fieldMatch(trimmedLine)
    IN  IF mm # <<>>
        THEN LET table == pullTableOf(ls, i, mm[1])
             IN  [currentModel |-> mm,
                  currentTable |-> <<table>>,
                  inModelBlock |-> TRUE,
                  resultLines  |-> cur.resultLines
                                      \o WithComment(tableCommentsMap, table, line)]
        ELSE IF cur.inModelBlock /\ trimmedLine = "}"
        THEN [currentModel |-> Null,
              currentTable |-> Null,
              inModelBlock |-> FALSE,
              resultLines  |-> Append(cur.resultLines, line)]
        ELSE IF /\ cur.inModelBlock
                /\ Truthy(cur.currentModel)
                /\ Truthy(cur.currentTable)
                /\ fm # <<>>
                /\ ~startsWith(trimmedLine, "//")
                /\ ~startsWith(trimmedLine, "/*")
        THEN LET dbName   == dbNameMatch(trimmedLine)
                 dbColumn == IF dbName # <<>> THEN dbName[1] ELSE fm[1]
             IN  [cur EXCEPT !.resultLines =
                     @ \o WithComment(columnCommentsMap,
                                      columnKeyOf(cur.currentTable[1], dbColumn), line)]
        ELSE [cur EXCEPT !.resultLines = Append(@, line)]

RECURSIVE PullFrom(_, _, _, _, _)
PullFrom(cur, ls, i, tableCommentsMap, columnCommentsMap) ==
    IF i >= Len(ls) THEN cur
    ELSE PullFrom(PullLine(cur, ls, i + 1, tableCommentsMap, columnCommentsMap),
                  ls, i + 1, tableCommentsMap, columnCommentsMap)

\* the text syncMySQLComments writes to prisma/enhanced-schema.prisma
syncMySQLComments(originalSchema, tableRows, columnRows) ==
    join(PullFrom(PullInitialCursor, split(cleanSchema(originalSchema)), 0,
                  BuildTableComments(tableRows, <<>>),
                  BuildColumnComments(columnRows, <<>>)).resultLines)

(***************************************************************************)
(* dbCommentPush: parsePrismaSchema.  A ModelInfo is a record; its comment  *)
(* is <<>> (null) or <<text>>.                                             *)
(***************************************************************************)
\* /\/\/\/\s*@comment\s+(.+)$/ tried at position k of a line
CommentAt(s, k) ==
    LET b == SkipSpaces(s, k + Len("///"))
        c == b + Len("@comment")
        d == SkipSpaces(s, c)
    IN  IF ~(MatchAt(s, "///", k) /\ MatchAt(s, "@comment", b)) THEN <<>>
        ELSE IF d > c /\ d <= Len(s) /\ DotEnd(s, d) > Len(s)
        THEN <<SubSeq(s, d, Len(s))>>
        ELSE IF d > Len(s) /\ d - c >= 2 /\ ~IsLineTerminator(CharAt(s, Len(s)))
        THEN <<SubSeq(s, Len(s), Len(s))>>
        ELSE <<>>

\* line.match(/\/\/\/\s*@comment\s+(.+)$/): <<>> or <<comment text>>
commentMatch(s) ==
    LET ks == {k \in 1..Len(s) : CommentAt(s, k) # <<>>}
    IN  IF ks = {} THEN <<>> ELSE CommentAt(s, CHOOSE k \in ks : \A m \in ks : k <= m)

\* mapLine.match(/^\w+\s/)
StartsWithWordAndSpace(s) ==
    SkipWord(s, 1) > 1 /\ IsSpace(CharAt(s, SkipWord(s, 1)))

\* the loop 'Check table mapping' from line j on: the name of the first
\* @map(...) met, tableName when a closing brace, a line that starts with
\* a word and a space, or the end of the text comes first
RECURSIVE parseTableName(_, _, _)
parseTableName(ls, j, tableName) ==
    IF j > Len(ls) THEN tableName
    ELSE LET mapLine == trim(ls[j])
         IN  IF dbNameMatch(mapLine) # <<>> THEN dbNameMatch(mapLine)[1]
             ELSE IF mapLine = "}" \/ StartsWithWordAndSpace(mapLine) THEN tableName
             ELSE parseTableName(ls, j + 1, tableName)

\* the loop 'Check table comment' over the lines j..last
RECURSIVE parseTableComment(_, _, _)
parseTableComment(ls, j, last) ==
    IF j > last \/ j > Len(ls) THEN Null
    ELSE LET commentLineText == trim(ls[j])
         IN  IF commentMatch(commentLineText) # <<>> THEN commentMatch(commentLineText)
             ELSE IF StartsWithWordAndSpace(commentLineText) THEN Null
             ELSE parseTableComment(ls, j + 1, last)

ParseInitialCursor == [models |-> <<>>, currentModel |-> Null, inModelBlock |-> FALSE]

\* one turn of the for loop over i of parsePrismaSchema
ParseLine(cur, ls, i) ==
    LET line == trim(ls[i])
        mm   == modelMatch(line)
        fm   == fieldMatch(line)
    IN  IF mm # <<>>
        THEN [cur EXCEPT
                !.currentModel =
                    <<[modelName |-> mm[1],
                       tableName |-> parseTableName(ls, i + 1, mm[1]),
                       comment   |-> parseTableComment(ls, i + 1, i + 4),
                       fields    |-> <<>>]>>,
                !.inModelBlock = TRUE]
        ELSE IF cur.inModelBlock /\ line = "}"
        THEN [models       |-> cur.models \o cur.currentModel,
              currentModel |-> Null,
              inModelBlock |-> FALSE]
        ELSE IF /\ cur.inModelBlock
                /\ cur.currentModel # Null
                /\ fm # <<>>
                /\ ~startsWith(line, "//")
        THEN LET dbName   == dbNameMatch(line)
                 dbColumn == IF dbName # <<>> THEN dbName[1] ELSE fm[1]
                 inline   == commentMatch(line)
                 nextLine == IF i + 1 <= Len(ls) THEN commentMatch(trim(ls[i + 1])) ELSE Null
                 comment  == IF inline # <<>> THEN inline ELSE nextLine
             IN  IF Truthy(comment)
                 THEN [cur EXCEPT !.currentModel[1].fields =
                          Append(@, [fieldName |-> fm[1],
                                     dbColumn  |-> dbColumn,
                                     comment   |-> comment[1]])]
                 ELSE cur
        ELSE cur

RECURSIVE ParseFrom(_, _, _)
ParseFrom(cur, ls, i) ==
    IF i >= Len(ls) THEN cur ELSE ParseFrom(ParseLine(cur, ls, i + 1), ls, i + 1)

\* the ModelInfo list parsePrismaSchema returns
parsePrismaSchema(schema) == ParseFrom(ParseInitialCursor, split(schema), 0).models

(***************************************************************************)
(* dbCommentPush: the statements of syncPrismaCommentsToMySQL and what     *)
(* they do to the database.  The database is the rows                      *)
(* <<TABLE_NAME, TABLE_COMMENT>> of its tables and                         *)
(* <<TABLE_NAME, COLUMN_NAME, COLUMN_COMMENT>> of its columns; table names *)
(* are compared as they are written, column names without regard to case.  *)
(***************************************************************************)
\* the statements of the loop over model.fields, in order: every field of
\* the list has a comment
FieldStatements(model) ==
    [f \in 1..Len(model.fields) |->
        [kind    |-> "column",
         table   |-> model.tableName,
         column  |-> model.fields[f].dbColumn,
         comment |-> model.fields[f].comment]]

\* the statements of the loop over models, in order: ALTER TABLE .. COMMENT
\* for a model with a comment, then its fields
RECURSIVE Statements(_)
Statements(ms) ==
    IF Len(ms) = 0 THEN <<>>
    ELSE (IF Truthy(Head(ms).comment)
          THEN <<[kind    |-> "table",
                  table   |-> Head(ms).tableName,
                  column  |-> "",
                  comment |-> Head(ms).comment[1]]>>
          ELSE <<>>)
         \o FieldStatements(Head(ms)) \o Statements(Tail(ms))

\* WHERE TABLE_COMMENT != '' and WHERE COLUMN_COMMENT != ''
RowsWithComment(rows) ==
    SelectSeq(rows, LAMBDA r : r[Len(r)] # "")

TableExists(tableRows, table) == \E k \in 1..Len(tableRows) : tableRows[k][1] = table

\* ALTER TABLE `table` COMMENT = comment
AlterTableComment(tableRows, table, comment) ==
    [k \in 1..Len(tableRows) |->
        IF tableRows[k][1] = table THEN <<table, comment>> ELSE tableRows[k]]

\* name LIKE pattern: % is any text, _ any character, a backslash takes the
\* next character as it is
RECURSIVE Like(_, _)
Like(name, pattern) ==
    IF Len(pattern) = 0 THEN Len(name) = 0
    ELSE LET c == CharAt(pattern, 1)
         IN  IF c = "%"
             THEN \E k \in 0..Len(name) :
                      Like(SubSeq(name, k + 1, Len(name)), SubSeq(pattern, 2, Len(pattern)))
             ELSE IF Len(name) = 0 THEN FALSE
             ELSE IF c = "_"
             THEN Like(SubSeq(name, 2, Len(name)), SubSeq(pattern, 2, Len(pattern)))
             ELSE IF c = "\\" /\ Len(pattern) >= 2
             THEN /\ toLowerChar(CharAt(name, 1)) = toLowerChar(CharAt(pattern, 2))
                  /\ Like(SubSeq(name, 2, Len(name)), SubSeq(pattern, 3, Len(pattern)))
             ELSE /\ toLowerChar(CharAt(name, 1)) = toLowerChar(c)
                  /\ Like(SubSeq(name, 2, Len(name)), SubSeq(pattern, 2, Len(pattern)))

\* SHOW COLUMNS FROM `table` LIKE column
ShowColumns(columnRows, table, column) ==
    SelectSeq(columnRows, LAMBDA r : r[1] = table /\ Like(r[2], column))

ColumnExists(columnRows, table, column) ==
    \E k \in 1..Len(columnRows) :
        columnRows[k][1] = table /\ toLowerCase(columnRows[k][2]) = toLowerCase(column)

\* ALTER TABLE `table` MODIFY COLUMN `column` .. COMMENT comment
ModifyColumnComment(columnRows, table, column, comment) ==
    [k \in 1..Len(columnRows) |->
        IF columnRows[k][1] = table /\ toLowerCase(columnRows[k][2]) = toLowerCase(column)
        THEN <<table, columnRows[k][2], comment>>
        ELSE columnRows[k]]

(***************************************************************************)
(* The run as a state machine: build the maps, walk the lines one by one,  *)
(* write the result.                                                       *)
(***************************************************************************)
VARIABLES
    lines,          \* originalSchema.split('\n')
    tables,         \* the TABLE_NAME rows of the catalog, in query order
    columns,        \* the <<TABLE_NAME, COLUMN_NAME>> rows of the catalog
    tableMap,
    columnMap,
    i,              \* the number of lines the loop has processed
    currentModel,
    currentTable,
    inModelBlock,
    tableHasMap,
    enhancedLines,
    enhancedSchema, \* the text written to enhanced-schema-singular.prisma
    pc,             \* "maps", "walk" or "done" ("idle": dbMap.ts is not run)
    schemaFile,     \* prisma/schema.prisma as the comment scripts read it
    enhancedFile,   \* prisma/enhanced-schema.prisma as dbCommentPull writes it
    tableComments,  \* the tables of the database: <<TABLE_NAME, TABLE_COMMENT>>
    columnComments, \* its columns: <<TABLE_NAME, COLUMN_NAME, COLUMN_COMMENT>>
    pullRuns,       \* the number of runs of dbCommentPull that have written
    cpc,            \* where the run of dbCommentPull stands: "ready", "read",
                    \* "tables" or "columns" ("idle": the scripts are not run)
    pullSchema,     \* originalSchema of the run of dbCommentPull
    pullTableRows,  \* tableComments of the run of dbCommentPull
    pullColumnRows, \* columnComments of the run of dbCommentPull
    qpc,            \* where the run of dbCommentPush stands: "ready", "sync",
                    \* "done" or "failed"
    pushSchema,     \* schema of the run of dbCommentPush
    models,         \* what its parsePrismaSchema returned
    pushWork,       \* the statements its loops have still to send
    pushShown       \* Null, or <<rows>>: what SHOW COLUMNS returned

\* the variables of the run of dbMap.ts
mapVars == <<lines, tables, columns, tableMap, columnMap, i, currentModel,
             currentTable, inModelBlock, tableHasMap, enhancedLines,
             enhancedSchema, pc>>

\* the variables of the comment scripts
commentVars == <<schemaFile, enhancedFile, tableComments, columnComments,
                 pullRuns, cpc, pullSchema, pullTableRows, pullColumnRows,
                 qpc, pushSchema, models, pushWork, pushShown>>

vars == <<mapVars, commentVars>>

\* the comment scripts are not run
NoCommentScripts ==
    /\ schemaFile = ""
    /\ enhancedFile = ""
    /\ tableComments = <<>>
    /\ columnComments = <<>>
    /\ pullRuns = 0
    /\ cpc = "idle"
    /\ pullSchema = ""
    /\ pullTableRows = <<>>
    /\ pullColumnRows = <<>>
    /\ qpc = "idle"
    /\ pushSchema = ""
    /\ models = <<>>
    /\ pushWork = <<>>
    /\ pushShown = <<>>

\* the longest schema text, in lines
MaxLines == 3

\* the lines schema texts are made of: headers, declarations, directives,
\* the table-mapping annotation as the script writes it, with white space
\* before the parenthesis and single quotes, and without a name; a closing
\* brace alone and one followed by a comment
LinePool ==
    {"model order_items {",
     "model User {",
     "model 7 {",
     "  user_id Int",
     "  user_id Int @map(\"uid\")",
     "  @@index([Foo(user_id), user_id])",
     "  @@unique([Auser_id, user_id])",
     "  @@index([user_id(sort: Desc)])",
     "  @@map(\"legacy_tbl\")",
     "  @@map ('legacy_tbl')",
     "  @@map()",
     "} // end",
     "}"}

\* the catalogs: the table and column of the end-to-end scenario; two tables
\* with one transformed name and no column rows; a table whose name has an
\* upper-case letter, which the table mapping leaves out.  Each leaves some
\* model names of LinePool without a matching table.
Catalogs ==
    {[tables |-> <<"order_items">>, columns |-> << <<"order_items", "user_id">> >>],
     [tables |-> <<"user", "users">>, columns |-> <<>>],
     [tables |-> <<"User">>, columns |-> <<>>]}

Schemas == UNION {[1..n -> LinePool] : n \in 1..MaxLines}

Cursor ==
    [currentModel  |-> currentModel,
     currentTable  |-> currentTable,
     inModelBlock  |-> inModelBlock,
     tableHasMap   |-> tableHasMap,
     enhancedLines |-> enhancedLines]

Init ==
    /\ lines \in Schemas
    /\ \E c \in Catalogs : tables = c.tables /\ columns = c.columns
    /\ tableMap = <<>>
    /\ columnMap = <<>>
    /\ i = 0
    /\ currentModel = Null
    /\ currentTable = Null
    /\ inModelBlock = FALSE
    /\ tableHasMap = FALSE
    /\ enhancedLines = <<>>
    /\ enhancedSchema = ""
    /\ pc = "maps"
    /\ NoCommentScripts

\* lines 106-121
BuildMaps ==
    /\ pc = "maps"
    /\ tableMap' = BuildTableMap(tables, <<>>)
    /\ columnMap' = BuildColumnMap(columns, <<>>)
    /\ pc' = "walk"
    /\ UNCHANGED <<lines, tables, columns, i, currentModel, currentTable,
                   inModelBlock, tableHasMap, enhancedLines, enhancedSchema>>
    /\ UNCHANGED commentVars

\* the cursor after the loop body is the record next
Advance(next) ==
    /\ i' = i + 1
    /\ currentModel' = next.currentModel
    /\ currentTable' = next.currentTable
    /\ inModelBlock' = next.inModelBlock
    /\ tableHasMap' = next.tableHasMap
    /\ enhancedLines' = next.enhancedLines
    /\ UNCHANGED <<lines, tables, columns, tableMap, columnMap, enhancedSchema, pc>>
    /\ UNCHANGED commentVars

HeaderLine ==
    /\ pc = "walk" /\ i < Len(lines)
    /\ LineKind(Cursor, lines, i + 1) = "header"
    /\ Advance(HeaderBranch(Cursor, lines, i + 1, tableMap))

CloseLine ==
    /\ pc = "walk" /\ i < Len(lines)
    /\ LineKind(Cursor, lines, i + 1) = "close"
    /\ Advance(CloseBranch(Cursor, lines, i + 1))

DirectiveLine ==
    /\ pc = "walk" /\ i < Len(lines)
    /\ LineKind(Cursor, lines, i + 1) = "directive"
    /\ Advance(DirectiveBranch(Cursor, lines, i + 1, columnMap))

FieldLine ==
    /\ pc = "walk" /\ i < Len(lines)
    /\ LineKind(Cursor, lines, i + 1) = "field"
    /\ Advance(FieldBranch(Cursor, lines, i + 1, columnMap))

PlainLine ==
    /\ pc = "walk" /\ i < Len(lines)
    /\ LineKind(Cursor, lines, i + 1) = "plain"
    /\ Advance(PlainBranch(Cursor, lines, i + 1))

\* lines 249-254
WriteSchema ==
    /\ pc = "walk" /\ i = Len(lines)
    /\ enhancedSchema' = join(enhancedLines)
    /\ pc' = "done"
    /\ UNCHANGED <<lines, tables, columns, tableMap, columnMap, i, currentModel,
                   currentTable, inModelBlock, tableHasMap, enhancedLines>>
    /\ UNCHANGED commentVars

Next ==
    \/ BuildMaps
    \/ HeaderLine
    \/ CloseLine
    \/ DirectiveLine
    \/ FieldLine
    \/ PlainLine
    \/ WriteSchema

\* the schemas whose model names are all lower-case: there the header is
\* rewritten only by name resolution, which leaves field identifiers and
\* directive entries as the only identifiers with upper-case characters
InitLowerModels ==
    /\ Init
    /\ \A k \in 1..Len(lines) :
           \A name \in {modelMatch(trim(lines[k]))} :
               name # <<>> => shouldTransform(name[1])

SpecLowerModels == InitLowerModels /\ [][Next]_vars

Spec == Init /\ [][Next]_vars

\* the longest schema text of the edge cases, in lines
MaxEdgeLines == 3

\* lines in the forms the walker's tests tell apart: an indented header, the
\* table-mapping annotation with white space before or inside the
\* parentheses and with single quotes, a declaration aligned with several
\* spaces, directives without a leading bracketed list (one of them with a
\* bracketed list in a comment behind it, one with a carriage return at its
\* end), lines with trailing white space, a closing brace followed by a
\* comment, a closing brace of a
\* text with CRLF line ends, the header of a text that starts with a byte
\* order mark (U+FEFF)
EdgePool ==
    {"model order_items {",
     "  model order_items {",
     "﻿model order_items {",
     "  @@map (\"legacy_tbl\")",
     "  @@map( 'legacy_tbl' )",
     "  user_id   Int",
     "  user_id Int @map(\"uid\")",
     "  @@index(fields: [user_id])",
     "  @@index(fields: [user_id]) // @@id([user_id])",
     "  @@id(user_id)\r",
     "  // note  ",
     "    ",
     "} // end",
     "}\r",
     "}"}

EdgeCatalogs ==
    {[tables |-> <<"order_items">>, columns |-> << <<"order_items", "user_id">> >>]}

EdgeSchemas == UNION {[1..n -> EdgePool] : n \in 1..MaxEdgeLines}

InitEdge ==
    /\ lines \in EdgeSchemas
    /\ \E c \in EdgeCatalogs : tables = c.tables /\ columns = c.columns
    /\ tableMap = <<>>
    /\ columnMap = <<>>
    /\ i = 0
    /\ currentModel = Null
    /\ currentTable = Null
    /\ inModelBlock = FALSE
    /\ tableHasMap = FALSE
    /\ enhancedLines = <<>>
    /\ enhancedSchema = ""
    /\ pc = "maps"
    /\ NoCommentScripts

SpecEdge == InitEdge /\ [][Next]_vars

\* the longest schema text of the column-key cases, in lines
MaxColumnLines == 3

\* lines of a database whose table and column names hold a dot (MySQL
\* allows any character in a quoted identifier): the model of table `a.b`
\* with its column c_d, next to the lines of table order_items; a
\* directive entry whose parameter text holds a replacement pattern
ColumnPool ==
    {"model a_b {",
     "  @@map(\"a.b\")",
     "  c_d Int",
     "  @@index([c_d])",
     "  @@index([c_d($&)])",
     "model order_items {",
     "  user_id Int",
     "}"}

\* the catalog of that database, read in full, for table order_items alone,
\* and without column rows; table `a` has the column `b.c_d`
ColumnCatalogs ==
    {[tables  |-> <<"a", "a.b", "order_items">>,
      columns |-> << <<"a.b", "c_d">>, <<"a", "b.c_d">>, <<"order_items", "user_id">> >>],
     [tables  |-> <<"a", "a.b", "order_items">>,
      columns |-> << <<"order_items", "user_id">> >>],
     [tables  |-> <<"a", "a.b", "order_items">>,
      columns |-> <<>>]}

ColumnSchemas == UNION {[1..n -> ColumnPool] : n \in 1..MaxColumnLines}

InitColumns ==
    /\ lines \in ColumnSchemas
    /\ \E c \in ColumnCatalogs : tables = c.tables /\ columns = c.columns
    /\ tableMap = <<>>
    /\ columnMap = <<>>
    /\ i = 0
    /\ currentModel = Null
    /\ currentTable = Null
    /\ inModelBlock = FALSE
    /\ tableHasMap = FALSE
    /\ enhancedLines = <<>>
    /\ enhancedSchema = ""
    /\ pc = "maps"
    /\ NoCommentScripts

SpecColumns == InitColumns /\ [][Next]_vars

(***************************************************************************)
(* The comment scripts as a state machine: dbCommentPull reads             *)
(* prisma/schema.prisma and writes prisma/enhanced-schema.prisma; the      *)
(* enhanced schema becomes the schema when the user adopts it;             *)
(* dbCommentPush parses prisma/schema.prisma.                              *)
(***************************************************************************)
\* the longest schema text of the comment scripts, in lines
MaxCommentLines == 3

\* the most runs of dbCommentPull
MaxPullRuns == 2

CommentPool ==
    {"model User {",
     "model users {",
     "  @@map(\"users\")",
     "  /// @comment staff",
     "  id Int",
     "  id Int /// @comment key\r",
     "  uid Int @map(\"id\")",
     "}"}

\* the database: table users with its column id, with comments of one line;
\* with a table comment of two lines and no column comment
CommentCatalogs ==
    {[tableComments  |-> << <<"users", "people">> >>,
      columnComments |-> << <<"users", "id", "pk">> >>],
     [tableComments  |-> << <<"users", "a\nb">> >>,
      columnComments |-> << <<"users", "id", "">> >>]}

CommentSchemas == {join(ls) : ls \in UNION {[1..n -> CommentPool] : n \in 1..MaxCommentLines}}

InitComments ==
    /\ schemaFile \in CommentSchemas
    /\ \E c \in CommentCatalogs :
           tableComments = c.tableComments /\ columnComments = c.columnComments
    /\ enhancedFile = ""
    /\ pullRuns = 0
    /\ cpc = "ready"
    /\ pullSchema = ""
    /\ pullTableRows = <<>>
    /\ pullColumnRows = <<>>
    /\ qpc = "ready"
    /\ pushSchema = ""
    /\ models = <<>>
    /\ pushWork = <<>>
    /\ pushShown = Null
    /\ lines = <<>>
    /\ tables = <<>>
    /\ columns = <<>>
    /\ tableMap = <<>>
    /\ columnMap = <<>>
    /\ i = 0
    /\ currentModel = Null
    /\ currentTable = Null
    /\ inModelBlock = FALSE
    /\ tableHasMap = FALSE
    /\ enhancedLines = <<>>
    /\ enhancedSchema = ""
    /\ pc = "idle"

pullVars == <<pullRuns, cpc, pullSchema, pullTableRows, pullColumnRows, enhancedFile>>

pushVars == <<qpc, pushSchema, models, pushWork, pushShown>>

database == <<tableComments, columnComments>>

\* dbCommentPull.ts lines 17-33: the schema is read, then the run waits for
\* the connection
PullRead ==
    /\ cpc = "ready"
    /\ pullRuns < MaxPullRuns
    /\ pullSchema' = schemaFile
    /\ cpc' = "read"
    /\ UNCHANGED <<pullRuns, pullTableRows, pullColumnRows, enhancedFile>>
    /\ UNCHANGED <<schemaFile, database, pushVars, mapVars>>

\* lines 36-42: the query of the table comments
PullQueryTables ==
    /\ cpc = "read"
    /\ pullTableRows' = RowsWithComment(tableComments)
    /\ cpc' = "tables"
    /\ UNCHANGED <<pullRuns, pullSchema, pullColumnRows, enhancedFile>>
    /\ UNCHANGED <<schemaFile, database, pushVars, mapVars>>

\* lines 45-51: the query of the column comments
PullQueryColumns ==
    /\ cpc = "tables"
    /\ pullColumnRows' = RowsWithComment(columnComments)
    /\ cpc' = "columns"
    /\ UNCHANGED <<pullRuns, pullSchema, pullTableRows, enhancedFile>>
    /\ UNCHANGED <<schemaFile, database, pushVars, mapVars>>

\* lines 53-160: the text is built from what the run read and written
PullWrite ==
    /\ cpc = "columns"
    /\ enhancedFile' = syncMySQLComments(pullSchema, pullTableRows, pullColumnRows)
    /\ pullRuns' = pullRuns + 1
    /\ cpc' = "ready"
    /\ UNCHANGED <<pullSchema, pullTableRows, pullColumnRows>>
    /\ UNCHANGED <<schemaFile, database, pushVars, mapVars>>

\* the user takes the enhanced schema as the schema
AdoptEnhanced ==
    /\ pullRuns >= 1
    /\ schemaFile # enhancedFile
    /\ schemaFile' = enhancedFile
    /\ UNCHANGED <<database, pullVars, pushVars, mapVars>>

\* dbCommentPush lines 38-53: the schema is read and parsed, then the run
\* waits for the connection
PushParse ==
    /\ qpc = "ready"
    /\ pushSchema' = schemaFile
    /\ models' = parsePrismaSchema(schemaFile)
    /\ pushWork' = Statements(parsePrismaSchema(schemaFile))
    /\ qpc' = "sync"
    /\ UNCHANGED pushShown
    /\ UNCHANGED <<schemaFile, database, pullVars, mapVars>>

\* lines 63-67: the table comment of a model is sent; a table the database
\* does not have ends the run with the error
PushAlterTable ==
    /\ qpc = "sync"
    /\ pushWork # <<>>
    /\ Head(pushWork).kind = "table"
    /\ LET st == Head(pushWork)
       IN  IF TableExists(tableComments, st.table)
           THEN /\ tableComments' = AlterTableComment(tableComments, st.table, st.comment)
                /\ pushWork' = Tail(pushWork)
                /\ UNCHANGED qpc
           ELSE /\ qpc' = "failed"
                /\ UNCHANGED <<tableComments, pushWork>>
    /\ UNCHANGED <<columnComments, pushSchema, models, pushShown>>
    /\ UNCHANGED <<schemaFile, pullVars, mapVars>>

\* lines 71-78 and 94-96: the column of a field is looked up; without a row
\* the run warns and goes on
PushShowColumns ==
    /\ qpc = "sync"
    /\ pushWork # <<>>
    /\ Head(pushWork).kind = "column"
    /\ pushShown = Null
    /\ LET st   == Head(pushWork)
           rows == ShowColumns(columnComments, st.table, st.column)
       IN  IF ~TableExists(tableComments, st.table)
           THEN /\ qpc' = "failed"
                /\ UNCHANGED <<pushWork, pushShown>>
           ELSE IF Len(rows) > 0
           THEN /\ pushShown' = <<rows>>
                /\ UNCHANGED <<qpc, pushWork>>
           ELSE /\ pushWork' = Tail(pushWork)
                /\ UNCHANGED <<qpc, pushShown>>
    /\ UNCHANGED <<database, pushSchema, models>>
    /\ UNCHANGED <<schemaFile, pullVars, mapVars>>

\* lines 79-93: the column is redefined with the comment of the field
PushModifyColumn ==
    /\ qpc = "sync"
    /\ pushShown # Null
    /\ LET st == Head(pushWork)
       IN  IF ColumnExists(columnComments, st.table, st.column)
           THEN /\ columnComments' =
                       ModifyColumnComment(columnComments, st.table, st.column, st.comment)
                /\ pushWork' = Tail(pushWork)
                /\ pushShown' = Null
                /\ UNCHANGED qpc
           ELSE /\ qpc' = "failed"
                /\ UNCHANGED <<columnComments, pushWork, pushShown>>
    /\ UNCHANGED <<tableComments, pushSchema, models>>
    /\ UNCHANGED <<schemaFile, pullVars, mapVars>>

\* lines 101-102: the loops are over
PushEnd ==
    /\ qpc = "sync"
    /\ pushWork = <<>>
    /\ qpc' = "done"
    /\ UNCHANGED <<pushSchema, models, pushWork, pushShown>>
    /\ UNCHANGED <<schemaFile, database, pullVars, mapVars>>

NextComments ==
    \/ PullRead
    \/ PullQueryTables
    \/ PullQueryColumns
    \/ PullWrite
    \/ AdoptEnhanced
    \/ PushParse
    \/ PushAlterTable
    \/ PushShowColumns
    \/ PushModifyColumn
    \/ PushEnd

SpecComments == InitComments /\ [][NextComments]_vars

(***************************************************************************)
(* Vocabulary of the properties: lines and blocks of the input text, read  *)
(* from the text alone, and the output line of an input line.              *)
(***************************************************************************)
TrimmedLine(k) == trim(trimEnd(lines[k]))

HeaderAt(k) == modelMatch(TrimmedLine(k)) # <<>>

\* the most recent model header among the lines processed so far (0: none)
LastHeader ==
    LET hs == {h \in 1..i : HeaderAt(h)}
    IN  IF hs = {} THEN 0 ELSE CHOOSE h \in hs : \A g \in hs : g <= h

\* the first line after header h that is a lone closing brace
\* (Len(lines) + 1 when the block is never closed)
BlockEnd(h) ==
    LET cs == {c \in (h + 1)..Len(lines) : TrimmedLine(c) = "}"}
    IN  IF cs = {} THEN Len(lines) + 1 ELSE CHOOSE c \in cs : \A d \in cs : c <= d

\* the walker has processed header h and is still inside its block
InBlockOf(h) == pc # "maps" /\ h >= 1 /\ i < BlockEnd(h) /\ h = LastHeader

\* the line at which the walker leaves the block of header h: the first
\* lone closing brace or, when another header comes first, that header,
\* which starts the next block (Len(lines) + 1 when there is neither)
WalkerBlockEnd(h) ==
    LET es == {e \in (h + 1)..Len(lines) : TrimmedLine(e) = "}" \/ HeaderAt(e)}
    IN  IF es = {} THEN Len(lines) + 1 ELSE CHOOSE e \in es : \A d \in es : e <= d

\* the raw table names of the explicit table-mapping annotations on a line,
\* in the form section 6 of the specification gives it: @@map("T"), with
\* optional white space before and inside the parentheses and with single
\* or double quotes
TableAnnotationNames(line) ==
    {DbNameAt(line, p + 1)[1] :
        p \in {q \in 1..Len(line) : MatchAt(line, "@@map", q) /\ DbNameAt(line, q + 1) # <<>>}}

\* the explicit table-mapping annotation lines of the block that header h
\* opens: the lines after h up to the line at which the walker leaves the
\* block
AnnotationLines(h) ==
    {j \in (h + 1)..(WalkerBlockEnd(h) - 1) : TableAnnotationNames(lines[j]) # {}}

\* the raw table names the annotations of the block of header h give
AnnotationNames(h) == UNION {TableAnnotationNames(lines[j]) : j \in AnnotationLines(h)}

\* the block of header h contains the explicit annotation @@map("T"), and
\* no annotation of another table
ExplicitName(h, T) == AnnotationNames(h) = {T}

\* the output line of input line j, for j after the last header processed
\* (from there on every input line has pushed exactly one output line)
OutLine(j) == enhancedLines[Len(enhancedLines) - (i - j)]

\* line k is a structural-directive line / a field declaration of a block
DirectiveLineAt(k) == IsDirectiveStart(TrimmedLine(k)) /\ directiveMatch(lines[k]) # <<>>

DeclarationLineAt(k) ==
    /\ ~HeaderAt(k)
    /\ ~IsDirectiveStart(TrimmedLine(k))
    /\ fieldMatch(TrimmedLine(k)) # <<>>

\* the entries of the bracketed list of a directive line
EntriesOf(line) == FieldMatches(directiveMatch(line)[1], 1)

(***************************************************************************)
(* C1                                                                      *)
(***************************************************************************)
E2ESchema == <<"model order_items {", "  user_id Int", "}">>

E2EExpected ==
    <<"model OrderItem {", "  @@map(\"order_items\")", "  userId Int @map(\"user_id\")", "}">>

E2ERun ==
    /\ lines = E2ESchema
    /\ tables = <<"order_items">>
    /\ columns = << <<"order_items", "user_id">> >>
    /\ pc = "done"

\* C1: with catalog tables {order_items} and columns {(order_items, user_id)},
\* the run on the three lines `model order_items {` / `  user_id Int` / `}`
\* emits exactly the four lines `model OrderItem {` / `  @@map("order_items")`
\* / `  userId Int @map("user_id")` / `}`, in that order.
C1_EndToEnd ==
    E2ERun => /\ enhancedLines = E2EExpected
              /\ enhancedSchema = join(E2EExpected)

C1_Witness == E2ERun /\ Len(enhancedLines) = Len(E2ESchema) + 1

(***************************************************************************)
(* C2                                                                      *)
(***************************************************************************)
\* C2: idempotence - running the transformation again on the text it wrote,
\* with the same catalog, writes the same text.
C2_Idempotent ==
    pc = "done" => Convert(enhancedSchema, tables, columns) = enhancedSchema

(***************************************************************************)
(* C3                                                                      *)
(***************************************************************************)
\* C3: within one block, a field identifier that is the leading identifier
\* of a declaration line and an entry of a directive list is emitted under
\* the same name in both places.
C3_DirectiveDeclarationConsistent ==
    \A h \in 1..i : InBlockOf(h) =>
        \A j, k \in (h + 1)..i :
            (DeclarationLineAt(j) /\ DirectiveLineAt(k)) =>
                \A p \in 1..Len(EntriesOf(lines[k])) :
                    EntriesOf(lines[k])[p].name = fieldMatch(TrimmedLine(j))[1] =>
                        /\ p <= Len(EntriesOf(OutLine(k)))
                        /\ EntriesOf(OutLine(k))[p].name = fieldMatch(trim(OutLine(j)))[1]

(***************************************************************************)
(* C4, C5, C9: the line just processed                                     *)
(***************************************************************************)
\* line i, the last one processed, lies inside a model block
LastInBlock == pc # "maps" /\ i >= 1 /\ \E h \in 1..(i - 1) : InBlockOf(h)

LastIsDirective == LastInBlock /\ DirectiveLineAt(i)

InEntries == EntriesOf(lines[i])

OutEntries == EntriesOf(enhancedLines[Len(enhancedLines)])

\* C4: parameter preservation - every entry identifier(parameterText) of a
\* directive list keeps its parenthesized parameter text character for
\* character in the rewritten line.
C4_ParametersPreserved ==
    LastIsDirective =>
        \A p \in 1..Len(InEntries) :
            InEntries[p].params # "" =>
                /\ p <= Len(OutEntries)
                /\ OutEntries[p].params = InEntries[p].params

\* C5: an identifier with an upper-case character is never rewritten and
\* never given a mapping annotation: the model name of a header line (the
\* header is emitted as it is, with no @@map line after it), the leading
\* identifier of a field declaration, every entry of a directive list.
C5_UpperCaseUntouched ==
    /\ (pc # "maps" /\ i >= 1 /\ HeaderAt(i)
            /\ ~shouldTransform(modelMatch(TrimmedLine(i))[1]))
          => enhancedLines[Len(enhancedLines)] = trimEnd(lines[i])
    /\ (LastInBlock /\ DeclarationLineAt(i)
            /\ ~shouldTransform(fieldMatch(TrimmedLine(i))[1]))
          => enhancedLines[Len(enhancedLines)] = trimEnd(lines[i])
    /\ LastIsDirective =>
          \A p \in 1..Len(InEntries) :
              ~shouldTransform(InEntries[p].name) =>
                  /\ p <= Len(OutEntries)
                  /\ OutEntries[p].name = InEntries[p].name

\* C9: scoped substitution - an entry of a directive list whose identifier
\* has an upper-case character is byte-identical in the output, parameter
\* suffix included, whatever the other entries are.
C9_ScopedSubstitution ==
    LastIsDirective =>
        \A p \in 1..Len(InEntries) :
            ~shouldTransform(InEntries[p].name) =>
                /\ p <= Len(OutEntries)
                /\ OutEntries[p].full = InEntries[p].full

(***************************************************************************)
(* C6                                                                      *)
(***************************************************************************)
\* C6: priority of explicit mapping - while the walker is inside a block
\* that contains the annotation @@map("T"), currentTable is T, whatever the
\* catalog holds, and the block's header was emitted without rewriting (as
\* it stood, up to white space at its end) with no @@map line synthesized
\* after it.
C6_ExplicitMappingPriority ==
    LET h == LastHeader
    IN  InBlockOf(h) =>
            \A T \in AnnotationNames(h) :
                ExplicitName(h, T) =>
                    /\ currentTable = <<T>>
                    /\ Len(enhancedLines) > i - h
                    /\ OutLine(h) = trimEnd(lines[h])

(***************************************************************************)
(* C7                                                                      *)
(***************************************************************************)
AfterHeader == pc # "maps" /\ i >= 1 /\ HeaderAt(i)

\* the block of the header just processed has no explicit annotation and
\* the table name it resolved to differs from its transformed name
NeedsMapLine ==
    /\ AnnotationLines(i) = {}
    /\ currentTable # Null
    /\ transformTableName(currentTable[1]) # currentTable[1]

\* C7: right after a model header is processed, the output ends with the
\* header followed by the line @@map("<currentTable>") if the block has no
\* explicit annotation and transformTableName(currentTable) differs from
\* currentTable, and ends with the header alone otherwise; the header of
\* catalog table order_items is `model OrderItem {`, directly followed by
\* `@@map("order_items")`.
C7_MapLineEmission ==
    AfterHeader =>
        LET n == Len(enhancedLines)
        IN  /\ NeedsMapLine =>
                /\ n >= 2
                /\ modelMatch(trim(enhancedLines[n - 1])) # <<>>
                /\ trim(enhancedLines[n]) = "@@map(\"" \o currentTable[1] \o "\")"
            /\ ~NeedsMapLine =>
                /\ n >= 1
                /\ modelMatch(trim(enhancedLines[n])) # <<>>
            /\ (NeedsMapLine /\ currentTable = <<"order_items">>
                    /\ MapHas(tableMap, "order_items")) =>
                /\ enhancedLines[n - 1] = "model OrderItem {"
                /\ trim(enhancedLines[n]) = "@@map(\"order_items\")"

(***************************************************************************)
(* C8                                                                      *)
(***************************************************************************)
\* C8: parse-cursor invariant - after any prefix of the input, currentModel
\* and currentTable are both non-null if and only if inModelBlock is true.
C8_CursorInvariant ==
    (currentModel # Null /\ currentTable # Null) <=> inModelBlock

(***************************************************************************)
(* C10                                                                     *)
(***************************************************************************)
\* the orders the catalog query can return the rows ts in
Orderings(ts) ==
    {[k \in 1..Len(ts) |-> ts[f[k]]] : f \in Permutations(1..Len(ts))}

\* C10: catalog order irrelevance - the text written is the same for every
\* order of the same catalog table rows.
C10_CatalogOrderIrrelevant ==
    pc = "done" =>
        \A ts \in Orderings(tables) :
            Convert(join(lines), ts, columns) = enhancedSchema

(***************************************************************************)
(* C11                                                                     *)
(***************************************************************************)
\* the annotation of the form @@map("T") a line holds, read with white space
\* allowed between `@@map` and `(` and around the quoted name, and with
\* single or double quotes: <<>> or <<T>>
AnnotationOf(line) ==
    LET ks == {k \in 1..Len(line) : CharAt(line, k) = "@" /\ DbNameAt(line, k + 1) # <<>>}
    IN  IF ks = {} THEN <<>>
        ELSE DbNameAt(line, (CHOOSE k \in ks : \A m \in ks : k <= m) + 1)

\* the lines after header h that lie in its block on every reading: before
\* the next header and before the next line that starts with a closing brace
InnerEnd(h) ==
    LET es == {e \in (h + 1)..Len(lines) :
                  HeaderAt(e) \/ startsWith(TrimmedLine(e), "}")}
    IN  IF es = {} THEN Len(lines) + 1 ELSE CHOOSE e \in es : \A d \in es : e <= d

InnerLines(h) == (h + 1)..(InnerEnd(h) - 1)

\* C11: recognition of the explicit table-mapping annotation is tolerant of
\* white space and of the quote character - right after a header whose
\* block holds a line of the form @@map("T"), written with single or double
\* quotes and optional white space between `@@map` and `(` and around the
\* quoted name, the table name is T of the first such line and no second
\* annotation is synthesized after the header.
C11_AnnotationTolerant ==
    AfterHeader =>
        LET as == {j \in InnerLines(i) : AnnotationOf(lines[j]) # <<>>}
        IN  as # {} =>
                /\ currentTable = AnnotationOf(lines[CHOOSE j \in as : \A m \in as : j <= m])
                /\ modelMatch(trim(enhancedLines[Len(enhancedLines)])) # <<>>

(***************************************************************************)
(* C12, C13                                                                *)
(***************************************************************************)
\* the number of lines of a text that hold `@comment`
CommentLineCount(text) ==
    Cardinality({k \in 1..Len(split(text)) : includes(split(text)[k], "@comment")})

\* the number of definitions of a text that dbCommentPull can put a
\* comment above: model headers, and inside a block the lines that start
\* with an identifier and white space
DefinitionCount(text) ==
    LET ls == split(text)
        Header(k) == modelMatch(trim(ls[k])) # <<>>
        InBlock(k) == \E h \in 1..(k - 1) :
                          /\ Header(h)
                          /\ \A c \in (h + 1)..(k - 1) : trim(ls[c]) # "}"
    IN  Cardinality({k \in 1..Len(ls) :
            \/ Header(k)
            \/ /\ InBlock(k)
               /\ fieldMatch(trim(ls[k])) # <<>>
               /\ ~startsWith(trim(ls[k]), "//")
               /\ ~startsWith(trim(ls[k]), "/*")})

\* C12: dbCommentPull avoids duplicate comments - for every schema, one
\* that holds comment lines of an earlier run included, the text a run
\* writes has at most one `@comment` line for each model header and each
\* field declaration: it holds no more `@comment` lines than definitions
\* (comment lines do not accumulate over the runs).
C12_NoDuplicateComments ==
    pullRuns >= 1 => CommentLineCount(enhancedFile) <= DefinitionCount(enhancedFile)

\* the text of the line `/* @comment text */` as dbCommentPull writes it:
\* <<>> or <<text>>
PulledComment(line) ==
    LET t == trim(line)
    IN  IF startsWith(t, "/* @comment ") /\ EndsWith(t, " */")
           /\ Len(t) > Len("/* @comment ") + Len(" */")
        THEN <<SubSeq(t, Len("/* @comment ") + 1, Len(t) - Len(" */"))>>
        ELSE <<>>

\* C13: push is the reverse of pull - for every comment line dbCommentPull
\* wrote above a model header, parsePrismaSchema run on that schema returns
\* a model of that name with the table name pull used and that comment
\* text; for every comment line it wrote above a field, some model holds a
\* field of that name with that comment text.  (Stated for the blocks that
\* are closed by a lone brace further down: parsePrismaSchema returns a
\* model when it meets the brace.)
C13_PushReadsPulledComments ==
    (qpc # "ready" /\ pullRuns >= 1) =>
        LET ls == split(pushSchema)
        IN  \A k \in 1..(Len(ls) - 1) :
                (/\ PulledComment(ls[k]) # <<>>
                 /\ \E j \in (k + 2)..Len(ls) : trim(ls[j]) = "}") =>
                    LET text == PulledComment(ls[k])[1]
                        hm   == modelMatch(trim(ls[k + 1]))
                        fm   == fieldMatch(trim(ls[k + 1]))
                    IN  /\ hm # <<>> =>
                              \E n \in 1..Len(models) :
                                  /\ models[n].modelName = hm[1]
                                  /\ models[n].tableName = pullTableOf(ls, k + 1, hm[1])
                                  /\ models[n].comment = <<text>>
                        /\ (hm = <<>> /\ fm # <<>>) =>
                              \E n \in 1..Len(models) :
                                  \E f \in 1..Len(models[n].fields) :
                                      /\ models[n].fields[f].fieldName = fm[1]
                                      /\ models[n].fields[f].comment = text

(***************************************************************************)
(* C14                                                                     *)
(***************************************************************************)
\* the output line of the header just processed: the last line, or the one
\* before the synthesized @@map line
HeaderOut ==
    LET n == Len(enhancedLines)
    IN  IF modelMatch(trim(enhancedLines[n])) # <<>>
        THEN enhancedLines[n]
        ELSE enhancedLines[n - 1]

\* the catalog tables that match a model name: the transformed name is the
\* model name, or the raw name is the lower-cased model name
MatchingTables(modelName) ==
    {k \in 1..Len(tables) :
        transformTableName(tables[k]) = modelName \/ tables[k] = toLowerCase(modelName)}

\* C14: table-name resolution without explicit annotation - right after the
\* header of a block with no explicit table-mapping annotation, currentTable
\* is the raw name of a catalog table whose transformed name equals the
\* model name or whose raw name equals the lower-cased model name, and the
\* emitted header carries transformTableName(currentTable) as model name;
\* when no catalog table matches, currentTable is the lower-cased model name
\* and the header keeps its model name.
C14_TableNameResolution ==
    (AfterHeader /\ AnnotationLines(i) = {}) =>
        LET modelName == modelMatch(TrimmedLine(i))[1]
        IN  IF MatchingTables(modelName) # {}
            THEN /\ \E k \in MatchingTables(modelName) : currentTable = <<tables[k]>>
                 /\ modelMatch(trim(HeaderOut)) = <<transformTableName(currentTable[1])>>
            ELSE /\ currentTable = <<toLowerCase(modelName)>>
                 /\ modelMatch(trim(HeaderOut)) = <<modelName>>

(***************************************************************************)
(* C15                                                                     *)
(***************************************************************************)
\* a line with its leading identifier replaced by name and nothing else
\* changed
WithLeadingName(line, name) ==
    LET b == SkipSpaces(line, 1)
        c == SkipWord(line, b)
    IN  SubSeq(line, 1, b - 1) \o name \o SubSeq(line, c, Len(line))

\* C15: field declaration rewrite - inside a block, a field line that already
\* carries an explicit @map annotation is emitted unchanged; a field line
\* without one whose identifier is flagged and whose mapped name differs
\* from it is emitted as the original line with only the leading identifier
\* replaced by the mapped name, and ` @map("<identifier>")` appended; any
\* other field line is neither renamed nor annotated.
C15_FieldRewrite ==
    (LastInBlock /\ DeclarationLineAt(i)) =>
        LET fieldName == fieldMatch(TrimmedLine(i))[1]
            mapped    == MappedOr(columnMap, columnKeyOf(currentTable[1], fieldName),
                                  camelCase(fieldName))
            out       == enhancedLines[Len(enhancedLines)]
        IN  IF dbNameMatch(lines[i]) # <<>> THEN out = lines[i]
            ELSE IF shouldTransform(fieldName) /\ mapped # fieldName
            THEN out = WithLeadingName(lines[i], mapped) \o " @map(\"" \o fieldName \o "\")"
            ELSE out = lines[i]

(***************************************************************************)
(* C16                                                                     *)
(***************************************************************************)
\* the walker takes line i + 1 in this step
WalksLine == pc = "walk" /\ i < Len(lines) /\ i' = i + 1

\* the line emitted last in this step
Emitted == enhancedLines'[Len(enhancedLines')]

\* the leading identifier of a line, <<>> when it has none
LeadingName(line) ==
    LET t == trim(line) IN IF SkipWord(t, 1) > 1 THEN <<SubSeq(t, 1, SkipWord(t, 1) - 1)>> ELSE <<>>

\* line i + 1 is not a model header, not a structural-directive line inside
\* a block and not a field declaration that this step renames
OtherLine ==
    /\ ~HeaderAt(i + 1)
    /\ ~(inModelBlock /\ IsDirectiveStart(TrimmedLine(i + 1)))
    /\ ~(inModelBlock /\ DeclarationLineAt(i + 1)
            /\ LeadingName(Emitted) # LeadingName(lines[i + 1]))

CursorUnchanged ==
    UNCHANGED <<currentModel, currentTable, inModelBlock, tableHasMap>>

\* C16 as stated: every input line that is not a model header, not a
\* structural-directive line inside a block and not a renamed field
\* declaration (a line outside any block, a block-close line, a comment or
\* blank line, an already-annotated field line) is emitted character for
\* character identical to the input line and causes no cursor state change.
C16_UnchangedLines ==
    [][(WalksLine /\ OtherLine) =>
           /\ enhancedLines' = Append(enhancedLines, lines[i + 1])
           /\ CursorUnchanged]_vars

\* C16 as amended: every such line is emitted once, identical to the input
\* line up to its trailing white space, which is removed; it causes no
\* cursor state change unless it is a lone closing brace met inside a
\* block, which resets the cursor.
C16_UnchangedUpToTrailingSpace ==
    [][(WalksLine /\ OtherLine) =>
           /\ enhancedLines' = Append(enhancedLines, trimEnd(lines[i + 1]))
           /\ ~(inModelBlock /\ TrimmedLine(i + 1) = "}") => CursorUnchanged]_vars

\* a comment line with trailing white space was emitted inside a block,
\* without the white space
C16_Witness ==
    /\ pc = "walk"
    /\ i = 2
    /\ inModelBlock
    /\ lines[2] = "  // note  "
    /\ enhancedLines[Len(enhancedLines)] = "  // note"

(***************************************************************************)
(* C17                                                                     *)
(***************************************************************************)
\* the line emitted in this step for the input line itself (a header may
\* push a second line, the synthesized annotation)
EmittedForLine == enhancedLines'[Len(enhancedLines) + 1]

\* a header line with its model identifier replaced by name and nothing
\* else changed
WithModelName(line, name) ==
    LET b == SkipSpaces(line, SkipSpaces(line, 1) + Len("model"))
        c == SkipWord(line, b)
    IN  SubSeq(line, 1, b - 1) \o name \o SubSeq(line, c, Len(line))

\* C17: indentation preservation - the line emitted for an input line that
\* holds text (model header, directive line, field declaration or other)
\* has the leading white space of the input line, and an emitted model
\* header differs from its input line only in the model identifier.
C17_IndentationPreserved ==
    [][(WalksLine /\ TrimmedLine(i + 1) # "") =>
           /\ indentationOf(EmittedForLine) = indentationOf(lines[i + 1])
           /\ HeaderAt(i + 1) =>
                  EmittedForLine =
                      WithModelName(trimEnd(lines[i + 1]),
                                    modelMatch(trim(EmittedForLine))[1])]_vars

(***************************************************************************)
(* C18                                                                     *)
(***************************************************************************)
\* C18: lookahead bound - on a model header the search for an existing
\* table-mapping annotation examines exactly the lines of that block, the
\* lines after the header up to the line at which the walker leaves the
\* block: it finds an annotation if and only if one of these lines holds
\* one.
C18_LookaheadBound ==
    AfterHeader =>
        (tableHasMap <=>
            \E j \in (i + 1)..(WalkerBlockEnd(i) - 1) : includes(lines[j], "@@map("))

(***************************************************************************)
(* C19                                                                     *)
(***************************************************************************)
\* line k starts with a directive keyword that has no bracketed list
\* directly as first argument: the keyword the line starts with is not
\* followed, white space apart, by a parenthesis and a bracketed list
MalformedDirectiveAt(k) ==
    /\ IsDirectiveStart(TrimmedLine(k))
    /\ \A kw \in DirectiveKeywords :
           startsWith(TrimmedLine(k), kw) => DirectiveAt(TrimmedLine(k), 1, kw) = <<>>

\* C19: a malformed directive passes through - a line inside a block that
\* starts with @@index, @@unique, @@id or @@fulltext but has no bracketed
\* identifier list directly as first argument is emitted unchanged and
\* leaves the cursor state unchanged.
C19_MalformedDirectivePassesThrough ==
    [][(WalksLine /\ inModelBlock /\ MalformedDirectiveAt(i + 1)) =>
           /\ enhancedLines' = Append(enhancedLines, lines[i + 1])
           /\ CursorUnchanged]_vars

(***************************************************************************)
(* C20                                                                     *)
(***************************************************************************)
\* a lone closing brace has been processed since the most recent header
ClosedSinceLastHeader == \E c \in (LastHeader + 1)..i : TrimmedLine(c) = "}"

\* C20: walker state characterization - the walker starts Outside; after any
\* prefix of the input inModelBlock is true if and only if some model
\* header has been processed and no lone closing brace has been processed
\* since the most recent header; a header is acted on as a block start in
\* both states (the cursor takes its model name); at the end of the input
\* an unterminated block leaves the walker in the block, with every line
\* emitted and the text written.
C20_WalkerStates ==
    /\ i = 0 => ~inModelBlock
    /\ pc # "maps" => (inModelBlock <=> (LastHeader # 0 /\ ~ClosedSinceLastHeader))
    /\ AfterHeader => (inModelBlock /\ currentModel = modelMatch(TrimmedLine(i)))
    /\ pc = "done" =>
           /\ i = Len(lines)
           /\ Len(enhancedLines) >= Len(lines)
           /\ enhancedSchema = join(enhancedLines)

\* the input ended inside a block whose last line starts with a closing
\* brace without being one
C20_Witness ==
    /\ pc = "done"
    /\ inModelBlock
    /\ lines = <<"model order_items {", "} // end">>
    /\ enhancedLines = <<"model OrderItem {", "  @@map(\"order_items\")", "} // end">>

(***************************************************************************)
(* C21                                                                     *)
(***************************************************************************)
\* a line that holds a table-mapping annotation and nothing before it
IsMapLine(line) == startsWith(trim(line), "@@map")

\* the number of table-mapping annotation lines of a sequence of lines
MapLineCount(ls) == Cardinality({k \in 1..Len(ls) : IsMapLine(ls[k])})

\* the text of a line up to its first opening parenthesis
UpToParenthesis(line) == SubSeq(line, 1, indexOf(line, "("))

\* out is what input line in may be emitted as: a header for a header; for
\* any other line the line itself without its trailing white space, or,
\* inside a block, a directive with the same keyword and indentation, or a
\* declaration whose text after the leading identifier starts with the text
\* the input line has there
EmittedFrom(out, in) ==
    IF modelMatch(trim(in)) # <<>> THEN modelMatch(trim(out)) # <<>>
    ELSE \/ out = trimEnd(in)
         \/ /\ inModelBlock
            /\ IsDirectiveStart(trim(in))
            /\ UpToParenthesis(out) = UpToParenthesis(in)
         \/ /\ inModelBlock
            /\ fieldMatch(trim(in)) # <<>>
            /\ fieldMatch(trim(out)) # <<>>
            /\ startsWith(fieldMatch(trim(out))[2], fieldMatch(trim(in))[2])

\* C21: line count and order preservation - every input line produces
\* exactly one output line at the same relative position, except that a
\* model header may be followed by exactly one synthesized @@map line: a
\* step of the walker leaves the lines emitted so far as they are and
\* appends the line of its input line, plus, after a header only, one
\* annotation line; the number of output lines is the number of input lines
\* processed plus the number of synthesized annotation lines.
C21_LineOrderPreserved ==
    [][WalksLine =>
           LET n == Len(enhancedLines)
               m == Len(enhancedLines')
           IN  /\ m \in {n + 1, n + 2}
               /\ SubSeq(enhancedLines', 1, n) = enhancedLines
               /\ EmittedFrom(EmittedForLine, lines[i + 1])
               /\ m = n + 2 =>
                      /\ HeaderAt(i + 1)
                      /\ IsMapLine(enhancedLines'[m])
               /\ m - (i + 1) =
                      MapLineCount(enhancedLines') - MapLineCount(SubSeq(lines, 1, i + 1))]_vars

\* a header inside a block pushed a second annotation line, and the block
\* was closed: five output lines for three input lines
C21_Witness ==
    /\ pc = "done"
    /\ lines = <<"model order_items {", "  model order_items {", "}">>
    /\ Len(enhancedLines) = 5
    /\ IsMapLine(enhancedLines[2])
    /\ IsMapLine(enhancedLines[4])
    /\ enhancedLines[5] = "}"

(***************************************************************************)
(* C22                                                                     *)
(***************************************************************************)
\* C22: column catalog irrelevance - for every schema text and table
\* catalog the text written is the same for every column catalog, the
\* empty one included: the text written with the column rows of the run is
\* the text written with no column rows.
C22_ColumnCatalogIrrelevant ==
    pc = "done" => enhancedSchema = Convert(join(lines), tables, <<>>)

(***************************************************************************)
(* C23                                                                     *)
(***************************************************************************)
\* the headers of a sequence of lines, and the line at which the walker
\* leaves the block of header h: the first lone closing brace or header
\* after it (Len(ls) + 1 when there is neither)
HeadersIn(ls) == {h \in 1..Len(ls) : modelMatch(trim(ls[h])) # <<>>}

BlockEndIn(ls, h) ==
    LET es == {e \in (h + 1)..Len(ls) :
                  trim(ls[e]) = "}" \/ modelMatch(trim(ls[e])) # <<>>}
    IN  IF es = {} THEN Len(ls) + 1 ELSE CHOOSE e \in es : \A d \in es : e <= d

\* the table-mapping annotation lines of the block of header h
AnnotationsIn(ls, h) ==
    {j \in (h + 1)..(BlockEndIn(ls, h) - 1) : includes(ls[j], "@@map(")}

AtMostOneAnnotation(ls) ==
    \A h \in HeadersIn(ls) : Cardinality(AnnotationsIn(ls, h)) <= 1

\* C23: at most one table mapping per block - if every model block of the
\* input holds at most one @@map annotation line, every model block of the
\* output (header up to the line where the walker leaves the block) holds
\* at most one: no annotation is synthesized for a block that has one.
C23_AtMostOneMapPerBlock ==
    (pc = "done" /\ AtMostOneAnnotation(lines)) => AtMostOneAnnotation(enhancedLines)

====
